---- MODULE Spec2Model ----
(***************************************************************************)
(* A model of scallop (kanywst/scallop): the image unpacker                *)
(* (internal/docker), the archive extractor (internal/utils), the          *)
(* directory and size analyzers (internal/analyzer) and the example        *)
(* driver (scripts/example.go).                                            *)
(*                                                                         *)
(* Strings are sequences of one-character strings, so that the string      *)
(* functions of the source (strings.Contains, strings.HasPrefix,           *)
(* filepath.Join, filepath.Ext, ...) are computed character by character   *)
(* as the Go library computes them.                                        *)
(***************************************************************************)
EXTENDS Integers, Sequences, FiniteSets, TLC

(***************************************************************************)
(* Section 1: strings                                                      *)
(***************************************************************************)

\* The byte value of each character the model's strings use (ASCII).
Ascii ==
    ("\t" :> 9) @@ (" " :> 32) @@ ("!" :> 33) @@ ("\"" :> 34) @@ ("#" :> 35) @@ ("$" :> 36) @@ ("%" :> 37) @@ ("&" :> 38) @@
    ("'" :> 39) @@ ("(" :> 40) @@ (")" :> 41) @@ ("*" :> 42) @@ ("+" :> 43) @@
    ("," :> 44) @@ ("-" :> 45) @@ ("." :> 46) @@ ("/" :> 47) @@ ("0" :> 48) @@
    ("1" :> 49) @@ ("2" :> 50) @@ ("3" :> 51) @@ ("4" :> 52) @@ ("5" :> 53) @@
    ("6" :> 54) @@ ("7" :> 55) @@ ("8" :> 56) @@ ("9" :> 57) @@ (":" :> 58) @@
    (";" :> 59) @@ ("<" :> 60) @@ ("=" :> 61) @@ (">" :> 62) @@ ("?" :> 63) @@
    ("@" :> 64) @@ ("A" :> 65) @@ ("B" :> 66) @@ ("C" :> 67) @@ ("D" :> 68) @@
    ("E" :> 69) @@ ("F" :> 70) @@ ("G" :> 71) @@ ("H" :> 72) @@ ("I" :> 73) @@
    ("J" :> 74) @@ ("K" :> 75) @@ ("L" :> 76) @@ ("M" :> 77) @@ ("N" :> 78) @@
    ("O" :> 79) @@ ("P" :> 80) @@ ("Q" :> 81) @@ ("R" :> 82) @@ ("S" :> 83) @@
    ("T" :> 84) @@ ("U" :> 85) @@ ("V" :> 86) @@ ("W" :> 87) @@ ("X" :> 88) @@
    ("Y" :> 89) @@ ("Z" :> 90) @@ ("[" :> 91) @@ ("]" :> 93) @@ ("^" :> 94) @@
    ("_" :> 95) @@ ("a" :> 97) @@ ("b" :> 98) @@ ("c" :> 99) @@
    ("d" :> 100) @@ ("e" :> 101) @@ ("f" :> 102) @@ ("g" :> 103) @@
    ("h" :> 104) @@ ("i" :> 105) @@ ("j" :> 106) @@ ("k" :> 107) @@
    ("l" :> 108) @@ ("m" :> 109) @@ ("n" :> 110) @@ ("o" :> 111) @@
    ("p" :> 112) @@ ("q" :> 113) @@ ("r" :> 114) @@ ("s" :> 115) @@
    ("t" :> 116) @@ ("u" :> 117) @@ ("v" :> 118) @@ ("w" :> 119) @@
    ("x" :> 120) @@ ("y" :> 121) @@ ("z" :> 122) @@ ("{" :> 123) @@
    ("|" :> 124) @@ ("}" :> 125) @@ ("~" :> 126)

\* strings.HasPrefix(s, prefix)
HasPrefix(s, prefix) ==
    /\ Len(prefix) <= Len(s)
    /\ SubSeq(s, 1, Len(prefix)) = prefix

\* strings.HasSuffix(s, suffix)
HasSuffix(s, suffix) ==
    /\ Len(suffix) <= Len(s)
    /\ SubSeq(s, Len(s) - Len(suffix) + 1, Len(s)) = suffix

\* strings.Contains(s, substr)
Contains(s, substr) ==
    \E i \in 1..(Len(s) - Len(substr) + 1) :
        SubSeq(s, i, i + Len(substr) - 1) = substr

\* The letters of ASCII.
UpperLetters ==
    <<"A", "B", "C", "D", "E", "F", "G", "H", "I", "J", "K", "L", "M",
      "N", "O", "P", "Q", "R", "S", "T", "U", "V", "W", "X", "Y", "Z">>

LowerLetters ==
    <<"a", "b", "c", "d", "e", "f", "g", "h", "i", "j", "k", "l", "m",
      "n", "o", "p", "q", "r", "s", "t", "u", "v", "w", "x", "y", "z">>

\* unicode.ToLower on one character of ASCII.
LowerChar(c) ==
    IF \E k \in DOMAIN UpperLetters : UpperLetters[k] = c
        THEN LowerLetters[CHOOSE k \in DOMAIN UpperLetters : UpperLetters[k] = c]
    ELSE c

\* strings.ToLower(s)
ToLower(s) == [i \in 1..Len(s) |-> LowerChar(s[i])]

\* The byte-wise comparison s < t of Go strings.
RECURSIVE StrLessFrom(_, _, _)
StrLessFrom(s, t, i) ==
    IF i > Len(t) THEN FALSE
    ELSE IF i > Len(s) THEN TRUE
    ELSE IF s[i] = t[i] THEN StrLessFrom(s, t, i + 1)
    ELSE Ascii[s[i]] < Ascii[t[i]]

StrLess(s, t) == StrLessFrom(s, t, 1)

(***************************************************************************)
(* Section 2: path/filepath                                                *)
(***************************************************************************)

Slash == <<"/">>
Dot == <<".">>
DotDot == <<".", ".">>

\* The elements of a path between its separators (empty ones included).
RECURSIVE SplitAcc(_, _, _)
SplitAcc(s, i, cur) ==
    IF i > Len(s) THEN <<cur>>
    ELSE IF s[i] = "/" THEN <<cur>> \o SplitAcc(s, i + 1, <<>>)
    ELSE SplitAcc(s, i + 1, Append(cur, s[i]))

Split(s) == SplitAcc(s, 1, <<>>)

\* The elements joined by separators.
RECURSIVE JoinSlash(_)
JoinSlash(comps) ==
    IF comps = <<>> THEN <<>>
    ELSE IF Len(comps) = 1 THEN comps[1]
    ELSE comps[1] \o Slash \o JoinSlash(Tail(comps))

\* filepath.Clean's pass over the elements: empty and "." elements are
\* dropped, ".." removes the element before it, is dropped at the root and
\* is kept at the front of a relative path.
RECURSIVE CleanAcc(_, _, _, _)
CleanAcc(comps, i, out, rooted) ==
    IF i > Len(comps) THEN out
    ELSE IF comps[i] = <<>> \/ comps[i] = Dot
        THEN CleanAcc(comps, i + 1, out, rooted)
    ELSE IF comps[i] = DotDot
        THEN IF Len(out) > 0 /\ out[Len(out)] # DotDot
                THEN CleanAcc(comps, i + 1, SubSeq(out, 1, Len(out) - 1), rooted)
             ELSE IF rooted
                THEN CleanAcc(comps, i + 1, out, rooted)
             ELSE CleanAcc(comps, i + 1, Append(out, DotDot), rooted)
    ELSE CleanAcc(comps, i + 1, Append(out, comps[i]), rooted)

\* filepath.Clean(path)
Clean(path) ==
    LET Cleaned(rooted, out) ==
            IF rooted THEN Slash \o JoinSlash(out)
            ELSE IF out = <<>> THEN Dot
            ELSE JoinSlash(out)
    IN  IF path = <<>> THEN Dot
        ELSE Cleaned(path[1] = "/", CleanAcc(Split(path), 1, <<>>, path[1] = "/"))

\* filepath.Join(a, b): empty elements are ignored, the result is cleaned,
\* and the join of empty elements is the empty string.
Join(a, b) ==
    IF a = <<>> /\ b = <<>> THEN <<>>
    ELSE IF a = <<>> THEN Clean(b)
    ELSE IF b = <<>> THEN Clean(a)
    ELSE Clean(a \o Slash \o b)

\* The index of the last separator of path, 0 when it has none.
RECURSIVE LastSlash(_, _)
LastSlash(path, i) ==
    IF i = 0 THEN 0
    ELSE IF path[i] = "/" THEN i
    ELSE LastSlash(path, i - 1)

\* filepath.Dir(path): all but the last element, cleaned.
Dir(path) == Clean(SubSeq(path, 1, LastSlash(path, Len(path))))

\* path without its trailing separators.
RECURSIVE TrimSlashes(_)
TrimSlashes(path) ==
    IF Len(path) > 0 /\ path[Len(path)] = "/"
        THEN TrimSlashes(SubSeq(path, 1, Len(path) - 1))
    ELSE path

\* filepath.Base(path): the last element.
Base(path) ==
    IF path = <<>> THEN Dot
    ELSE LET p == TrimSlashes(path)
         IN  IF p = <<>> THEN Slash
             ELSE SubSeq(p, LastSlash(p, Len(p)) + 1, Len(p))

\* filepath.Ext(path): the suffix from the last dot of the last element.
RECURSIVE ExtFrom(_, _)
ExtFrom(path, i) ==
    IF i = 0 THEN <<>>
    ELSE IF path[i] = "/" THEN <<>>
    ELSE IF path[i] = "." THEN SubSeq(path, i, Len(path))
    ELSE ExtFrom(path, i - 1)

Ext(path) == ExtFrom(path, Len(path))

\* filepath.Rel(basepath, targpath) for a target the walk reached from
\* basepath: the target itself gives ".", a path below it the rest.
Rel(basepath, targpath) ==
    LET Below(b, t) ==
            IF t = b THEN Dot
            ELSE IF b = Slash THEN SubSeq(t, 2, Len(t))
            ELSE SubSeq(t, Len(b) + 2, Len(t))
    IN  Below(Clean(basepath), Clean(targpath))

(***************************************************************************)
(* Section 3: the filesystem (os, as the program calls it)                 *)
(*                                                                         *)
(* fs maps the physical path of every existing entry to its node: a        *)
(* directory, a regular file (data: its blocks) or a symbolic link (link:  *)
(* its target).  perm says whether the entry can be opened or listed.      *)
(***************************************************************************)

\* The symbolic links one path resolution may follow before ELOOP.
MaxSymlinks == 4

\* The process's working directory.
Cwd == <<"/", "w">>

DirNode == [kind |-> "dir", data |-> <<>>, link |-> <<>>, perm |-> TRUE]
FileNode(data, perm) == [kind |-> "file", data |-> data, link |-> <<>>, perm |-> perm]
LinkNode(target) == [kind |-> "link", data |-> <<>>, link |-> target, perm |-> TRUE]

\* path/name below the directory dir.
Child(dir, name) == IF dir = Slash THEN Slash \o name ELSE dir \o Slash \o name

\* The elements of a path name the kernel walks: empty elements and "."
\* name the directory they are in.
IsElement(c) == c # <<>> /\ c # Dot

Elements(path) == SelectSeq(Split(path), IsElement)

\* The kernel's walk of the elements comps from the directory cur: the
\* physical path reached and whether an entry exists there.  follow says
\* whether a symbolic link in the last element is followed.
RECURSIVE Lookup(_, _, _, _, _)
Lookup(fs, cur, comps, follow, fuel) ==
    IF comps = <<>> THEN [err |-> "", path |-> cur, exists |-> TRUE]
    ELSE IF Head(comps) = DotDot
        THEN Lookup(fs, Dir(cur), Tail(comps), follow, fuel)
    ELSE LET p == Child(cur, Head(comps))
             rest == Tail(comps)
         IN  IF p \notin DOMAIN fs
                THEN IF rest = <<>>
                        THEN [err |-> "", path |-> p, exists |-> FALSE]
                     ELSE [err |-> "ENOENT", path |-> p, exists |-> FALSE]
             ELSE IF fs[p].kind = "link" /\ (rest # <<>> \/ follow)
                THEN IF fuel = 0
                        THEN [err |-> "ELOOP", path |-> p, exists |-> FALSE]
                     ELSE Lookup(fs,
                                 IF HasPrefix(fs[p].link, Slash) THEN Slash ELSE cur,
                                 Elements(fs[p].link) \o rest, follow, fuel - 1)
             ELSE IF fs[p].kind # "dir" /\ rest # <<>>
                THEN [err |-> "ENOTDIR", path |-> p, exists |-> FALSE]
             ELSE Lookup(fs, p, rest, follow, fuel)

\* The resolution of a path name, from the root or the working directory.
Namei(fs, path, follow) ==
    IF path = <<>> THEN [err |-> "ENOENT", path |-> <<>>, exists |-> FALSE]
    ELSE Lookup(fs, IF path[1] = "/" THEN Slash ELSE Cwd, Elements(path), follow,
                MaxSymlinks)

\* os.Stat(path) succeeds.
StatOk(fs, path) ==
    LET Ok(r) == r.err = "" /\ r.exists
    IN  Ok(Namei(fs, path, TRUE))

\* os.Stat(path) succeeds and IsDir().
StatIsDir(fs, path) ==
    LET IsDir(r) == r.err = "" /\ r.exists /\ fs[r.path].kind = "dir"
    IN  IsDir(Namei(fs, path, TRUE))

\* os.Lstat(path) succeeds and IsDir().
LstatIsDir(fs, path) ==
    LET IsDir(r) == r.err = "" /\ r.exists /\ fs[r.path].kind = "dir"
    IN  IsDir(Namei(fs, path, FALSE))

\* A directory above the physical path gives no search permission.
Denied(fs, path) ==
    \E k \in 1..(Len(path) - 1) :
        /\ path[k + 1] = "/"
        /\ SubSeq(path, 1, k) \in DOMAIN fs
        /\ fs[SubSeq(path, 1, k)].kind = "dir"
        /\ ~fs[SubSeq(path, 1, k)].perm

\* The error of os.Stat(path): the empty string is nil.
StatErr(fs, path) ==
    LET Of(r) ==
            IF r.path # <<>> /\ Denied(fs, r.path) THEN "EACCES"
            ELSE IF r.err # "" THEN r.err
            ELSE IF ~r.exists THEN "ENOENT"
            ELSE ""
    IN  Of(Namei(fs, path, TRUE))

\* os.IsNotExist(err)
IsNotExist(err) == err = "ENOENT"

\* DirExists(path): what it returns, or the panic of the call info.IsDir()
\* on the nil FileInfo os.Stat returns with an error.
DirExists(fs, path) ==
    IF IsNotExist(StatErr(fs, path)) THEN [panic |-> FALSE, value |-> FALSE]
    ELSE IF StatErr(fs, path) # "" THEN [panic |-> TRUE, value |-> FALSE]
    ELSE [panic |-> FALSE, value |-> StatIsDir(fs, path)]

\* os.Mkdir(path)
Mkdir(fs, path) ==
    LET At(r) ==
            IF r.err # "" THEN [fs |-> fs, err |-> r.err]
            ELSE IF r.exists THEN [fs |-> fs, err |-> "EEXIST"]
            ELSE [fs |-> (r.path :> DirNode) @@ fs, err |-> ""]
    IN  At(Namei(fs, path, FALSE))

\* os.MkdirAll(path): nothing to do for a directory, an error for another
\* entry; otherwise the parent first, then Mkdir.
RECURSIVE MkdirAll(_, _)
MkdirAll(fs, path) ==
    LET Stat(r) ==
            IF r.err = "" /\ r.exists
                THEN IF fs[r.path].kind = "dir" THEN "dir" ELSE "other"
            ELSE "none"
        Made(up, mk) ==
            IF mk.err = "" THEN mk
            ELSE IF LstatIsDir(up.fs, path) THEN [fs |-> up.fs, err |-> ""]
            ELSE [fs |-> up.fs, err |-> mk.err]
        Below(up) == IF up.err # "" THEN up ELSE Made(up, Mkdir(up.fs, path))
        Parent(trimmed) == SubSeq(path, 1, LastSlash(trimmed, Len(trimmed)))
        Missing(parent) ==
            Below(IF Len(parent) > 0 THEN MkdirAll(fs, parent)
                  ELSE [fs |-> fs, err |-> ""])
        Found(st) ==
            IF st = "dir" THEN [fs |-> fs, err |-> ""]
            ELSE IF st = "other" THEN [fs |-> fs, err |-> "ENOTDIR"]
            ELSE Missing(Parent(TrimSlashes(path)))
    IN  Found(Stat(Namei(fs, path, TRUE)))

\* The bytes of a file after writing new from offset 0 into a file that
\* held old: the file is not truncated, so a longer old keeps its tail.
Overlay(old, new) == new \o SubSeq(old, Len(new) + 1, Len(old))

\* os.OpenFile(path, O_CREATE|O_WRONLY, mode): the final symbolic link is
\* followed, an existing file is opened as it is, a missing one is created
\* empty.  file is the physical path of the opened file.
OpenFileCreate(fs, path, mode) ==
    LET At(r) ==
            IF r.err # "" THEN [fs |-> fs, err |-> r.err, file |-> <<>>]
            ELSE IF ~r.exists
                THEN [fs |-> (r.path :> FileNode(<<>>, mode)) @@ fs, err |-> "",
                      file |-> r.path]
            ELSE IF fs[r.path].kind = "dir"
                THEN [fs |-> fs, err |-> "EISDIR", file |-> <<>>]
            ELSE IF ~fs[r.path].perm
                THEN [fs |-> fs, err |-> "EACCES", file |-> <<>>]
            ELSE [fs |-> fs, err |-> "", file |-> r.path]
    IN  At(Namei(fs, path, TRUE))

\* io.Copy(file, body) on a file just opened: body is written from offset 0.
CopyInto(fs, file, body) ==
    [fs EXCEPT ![file].data = Overlay(fs[file].data, body)]

\* os.Symlink(linkname, path)
Symlink(fs, linkname, path) ==
    LET At(r) ==
            IF linkname = <<>> THEN [fs |-> fs, err |-> "ENOENT"]
            ELSE IF r.err # "" THEN [fs |-> fs, err |-> r.err]
            ELSE IF r.exists THEN [fs |-> fs, err |-> "EEXIST"]
            ELSE [fs |-> (r.path :> LinkNode(linkname)) @@ fs, err |-> ""]
    IN  At(Namei(fs, path, FALSE))

\* os.Open(path): file is the physical path of the opened entry.
Open(fs, path) ==
    LET At(r) ==
            IF r.err # "" THEN [err |-> r.err, file |-> <<>>]
            ELSE IF ~r.exists THEN [err |-> "ENOENT", file |-> <<>>]
            ELSE IF ~fs[r.path].perm THEN [err |-> "EACCES", file |-> <<>>]
            ELSE [err |-> "", file |-> r.path]
    IN  At(Namei(fs, path, TRUE))

\* The names in the directory at the physical path dir.
DirNames(fs, dir) ==
    LET Below(prefix) ==
            { SubSeq(p, Len(prefix) + 1, Len(p)) :
                p \in { q \in DOMAIN fs :
                          /\ q # dir
                          /\ HasPrefix(q, prefix)
                          /\ ~Contains(SubSeq(q, Len(prefix) + 1, Len(q)), Slash) } }
    IN  Below(IF dir = Slash THEN Slash ELSE dir \o Slash)

\* sort.Strings: the strings of a set in ascending byte order.
RECURSIVE SortStrings(_)
SortStrings(S) ==
    IF S = {} THEN <<>>
    ELSE LET First(m) == <<m>> \o SortStrings(S \ {m})
         IN  First(CHOOSE s \in S : \A t \in S \ {s} : StrLess(s, t))

\* os.Remove(path): the entry is unlinked (a directory only when empty).
Remove(fs, path) ==
    LET At(r) ==
            IF r.err # "" \/ ~r.exists THEN fs
            ELSE IF fs[r.path].kind = "dir" /\ DirNames(fs, r.path) # {} THEN fs
            ELSE [q \in DOMAIN fs \ {r.path} |-> fs[q]]
    IN  At(Namei(fs, path, FALSE))

\* os.RemoveAll(path): the entry and everything below it.
RemoveAll(fs, path) ==
    LET At(r) ==
            IF r.err # "" \/ ~r.exists THEN fs
            ELSE [q \in { e \in DOMAIN fs :
                            e # r.path /\ ~HasPrefix(e, r.path \o Slash) } |-> fs[q]]
    IN  At(Namei(fs, path, FALSE))

(***************************************************************************)
(* Section 4: path/filepath.Glob                                           *)
(***************************************************************************)

\* filepath.Match(pattern, name) for a pattern of literal characters and
\* "*" (any sequence of characters of one element), the patterns the
\* program uses.
RECURSIVE GlobMatch(_, _)
GlobMatch(pattern, name) ==
    IF pattern = <<>> THEN name = <<>>
    ELSE IF Head(pattern) = "*"
        THEN \E k \in 0..Len(name) :
                GlobMatch(Tail(pattern), SubSeq(name, k + 1, Len(name)))
    ELSE /\ name # <<>>
         /\ Head(name) = Head(pattern)
         /\ GlobMatch(Tail(pattern), Tail(name))

\* filepath.hasMeta(path), for the one metacharacter the patterns use.
HasMeta(path) == Contains(path, <<"*">>)

\* filepath.glob(dir, pattern): the entries of the directory dir whose names
\* match, in sorted order; nothing when dir is no directory or cannot be
\* listed.
GlobDir(fs, dir, pattern) ==
    LET Joined(names) == [k \in 1..Len(names) |-> Join(dir, names[k])]
        In(r) ==
            IF r.err # "" \/ ~r.exists THEN <<>>
            ELSE IF fs[r.path].kind # "dir" \/ ~fs[r.path].perm THEN <<>>
            ELSE Joined(SortStrings({ n \in DirNames(fs, r.path) :
                                        GlobMatch(pattern, n) }))
    IN  In(Namei(fs, dir, TRUE))

\* The concatenation of the sequences of a sequence.
RECURSIVE Flatten(_)
Flatten(seqs) ==
    IF seqs = <<>> THEN <<>> ELSE Head(seqs) \o Flatten(Tail(seqs))

\* filepath.Glob(pattern): the directory part is globbed first when it holds
\* a metacharacter, then the last element is matched in each directory.
RECURSIVE Glob(_, _)
Glob(fs, pattern) ==
    LET Found(r) == IF r.err = "" /\ r.exists THEN <<pattern>> ELSE <<>>
        Each(m, file) == Flatten([k \in 1..Len(m) |-> GlobDir(fs, m[k], file)])
        In(dir, file) ==
            IF ~HasMeta(dir) THEN GlobDir(fs, dir, file)
            ELSE Each(Glob(fs, dir), file)
        Cut(cut) ==
            In(IF cut = 0 THEN Dot
               ELSE IF cut = 1 THEN Slash
               ELSE SubSeq(pattern, 1, cut - 1),
               SubSeq(pattern, cut + 1, Len(pattern)))
    IN  IF ~HasMeta(pattern) THEN Found(Namei(fs, pattern, FALSE))
        ELSE Cut(LastSlash(pattern, Len(pattern)))

(***************************************************************************)
(* Section 5: archive/tar                                                  *)
(*                                                                         *)
(* The data of a file is a sequence of blocks.  A block is a tar entry     *)
(* (its header and body), a block of other data, or the magic of a gzip    *)
(* stream.  The body of a regular-file entry is again a sequence of        *)
(* blocks: a layer.tar in an image tarball is an archive itself.           *)
(***************************************************************************)

TarDir(name) ==
    [typeflag |-> "dir", name |-> name, linkname |-> <<>>, body |-> <<>>,
     mode |-> TRUE, short |-> FALSE]

\* short: the archive ends inside the body.
TarReg(name, body, mode, short) ==
    [typeflag |-> "reg", name |-> name, linkname |-> <<>>, body |-> body,
     mode |-> mode, short |-> short]

TarSym(name, linkname) ==
    [typeflag |-> "sym", name |-> name, linkname |-> linkname, body |-> <<>>,
     mode |-> TRUE, short |-> FALSE]

\* A hard link, a device, a fifo: an entry of a kind the program skips.
TarOther(name) ==
    [typeflag |-> "other", name |-> name, linkname |-> <<>>, body |-> <<>>,
     mode |-> TRUE, short |-> FALSE]

\* A block of file data that is no tar header.
Data(c) ==
    [typeflag |-> "data", name |-> <<c>>, linkname |-> <<>>, body |-> <<>>,
     mode |-> TRUE, short |-> FALSE]

\* The header of a gzip stream.
GzMagic ==
    [typeflag |-> "gz", name |-> <<>>, linkname |-> <<>>, body |-> <<>>,
     mode |-> TRUE, short |-> FALSE]

HeaderFlags == {"dir", "reg", "sym", "other"}

\* tarReader.Next() on the open file at block pos: the next header, io.EOF
\* at the end, an error on anything that is no header.
TarNext(fs, file, pos) ==
    IF fs[file].kind # "file" THEN [res |-> "error"]
    ELSE IF pos > Len(fs[file].data) THEN [res |-> "EOF"]
    ELSE IF fs[file].data[pos].typeflag \in HeaderFlags
        THEN [res |-> "header", header |-> fs[file].data[pos]]
    ELSE [res |-> "error"]

(***************************************************************************)
(* Section 6: the archive extractor and the image unpacker                 *)
(***************************************************************************)

sImage == <<"i", "m", "a", "g", "e">>
sLayerTar == <<"l", "a", "y", "e", "r", ".", "t", "a", "r">>
sExtracted == <<"e", "x", "t", "r", "a", "c", "t", "e", "d">>
sGz == <<".", "g", "z">>
sTgz == <<".", "t", "g", "z">>
sLayerPattern == <<"*", "/">> \o sLayerTar

\* IsDockerImageName without its test for ":".
IsDockerImageNameNoSlash(name) == ~Contains(name, <<"/">>)

\* IsDockerImageName(name)
IsDockerImageName(name) ==
    ~Contains(name, <<"/">>) \/ Contains(name, <<":">>)

\* The path-traversal check of ExtractTar.
TarPathAllowed(target, destDir) == HasPrefix(target, destDir)

\* One entry of ExtractTar: the target path, the path-traversal check, and
\* the entry's kind.
ExtractTarEntry(fs, destDir, header) ==
    LET Copied(o) ==
            IF o.err # "" THEN [fs |-> o.fs, err |-> "create"]
            ELSE [fs |-> CopyInto(o.fs, o.file, header.body),
                  err |-> IF header.short THEN "copy" ELSE ""]
        Regular(m, target) ==
            IF m.err # "" THEN [fs |-> m.fs, err |-> "mkdir"]
            ELSE Copied(OpenFileCreate(m.fs, target, header.mode))
        Made(m) == [fs |-> m.fs, err |-> IF m.err # "" THEN "mkdir" ELSE ""]
        Linked(k) == [fs |-> k.fs, err |-> IF k.err # "" THEN "symlink" ELSE ""]
        At(target) ==
            IF ~TarPathAllowed(target, destDir)
                THEN [fs |-> fs, err |-> "traversal"]
            ELSE IF header.typeflag = "dir" THEN Made(MkdirAll(fs, target))
            ELSE IF header.typeflag = "reg"
                THEN Regular(MkdirAll(fs, Dir(target)), target)
            ELSE IF header.typeflag = "sym"
                THEN Linked(Symlink(fs, header.linkname, target))
            ELSE [fs |-> fs, err |-> ""]
    IN  At(Join(destDir, header.name))

\* The path-traversal check of extractFromTarFile.
ImagePathAllowed(target, imageDir) == HasPrefix(target, imageDir)

\* One entry of extractFromTarFile's loop over the outer tarball.
ExtractImageEntry(fs, imageDir, header) ==
    LET Copied(o) ==
            IF o.err # "" THEN [fs |-> o.fs, err |-> "create"]
            ELSE [fs |-> CopyInto(o.fs, o.file, header.body),
                  err |-> IF header.short THEN "copy" ELSE ""]
        Regular(m, target) ==
            IF m.err # "" THEN [fs |-> m.fs, err |-> "mkdir"]
            ELSE Copied(OpenFileCreate(m.fs, target, header.mode))
        Made(m) == [fs |-> m.fs, err |-> IF m.err # "" THEN "mkdir" ELSE ""]
        Linked(k) == [fs |-> k.fs, err |-> IF k.err # "" THEN "symlink" ELSE ""]
        At(target) ==
            IF ~ImagePathAllowed(target, imageDir)
                THEN [fs |-> fs, err |-> "traversal"]
            ELSE IF header.typeflag = "dir" THEN Made(MkdirAll(fs, target))
            ELSE IF header.typeflag = "reg"
                THEN Regular(MkdirAll(fs, Dir(target)), target)
            ELSE IF header.typeflag = "sym"
                THEN Linked(Symlink(fs, header.linkname, target))
            ELSE [fs |-> fs, err |-> ""]
    IN  At(Join(imageDir, header.name))

\* ExtractTarStep with the error of an entry dropped: the loop goes on.
ExtractTarStepIgnoringError(fs, file, pos, destDir) ==
    LET Done(e) == [fs |-> e.fs, res |-> "next", err |-> ""]
        On(n) ==
            IF n.res = "EOF" THEN [fs |-> fs, res |-> "EOF", err |-> ""]
            ELSE IF n.res = "error" THEN [fs |-> fs, res |-> "return", err |-> "read"]
            ELSE Done(ExtractTarEntry(fs, destDir, n.header))
    IN  On(TarNext(fs, file, pos))

\* One turn of the loop of ExtractTar on the open file at block pos: the end
\* of the archive, a return with an error, or the next turn.
ExtractTarStep(fs, file, pos, destDir) ==
    LET Done(e) ==
            IF e.err # "" THEN [fs |-> e.fs, res |-> "return", err |-> e.err]
            ELSE [fs |-> e.fs, res |-> "next", err |-> ""]
        On(n) ==
            IF n.res = "EOF" THEN [fs |-> fs, res |-> "EOF", err |-> ""]
            ELSE IF n.res = "error" THEN [fs |-> fs, res |-> "return", err |-> "read"]
            ELSE Done(ExtractTarEntry(fs, destDir, n.header))
    IN  On(TarNext(fs, file, pos))

\* One turn of the loop of extractFromTarFile over the outer tarball.
ExtractImageStep(fs, file, pos, imageDir) ==
    LET Done(e) ==
            IF e.err # "" THEN [fs |-> e.fs, res |-> "return", err |-> e.err]
            ELSE [fs |-> e.fs, res |-> "next", err |-> ""]
        On(n) ==
            IF n.res = "EOF" THEN [fs |-> fs, res |-> "EOF", err |-> ""]
            ELSE IF n.res = "error" THEN [fs |-> fs, res |-> "return", err |-> "read"]
            ELSE Done(ExtractImageEntry(fs, imageDir, n.header))
    IN  On(TarNext(fs, file, pos))

\* The layer tarballs looked for in the image directory itself.
FindLayersInRoot(fs, imageDir) == Glob(fs, Join(imageDir, sLayerTar))

\* The layer tarballs extractLayers finds.
FindLayers(fs, imageDir) == Glob(fs, Join(imageDir, sLayerPattern))

\* The directory extractLayers extracts the layer tarball layerPath into.
ExtractedDir(layerPath) == Join(Dir(layerPath), sExtracted)

\* extractLayers wraps the error of ExtractTar.
LayerErr(err) == "layer-" \o err

(***************************************************************************)
(* Section 7: path/filepath.Walk and sort                                  *)
(***************************************************************************)

\* The size os.Lstat reports: a file's length, a link's target's length.
LstatSize(node) ==
    IF node.kind = "file" THEN Len(node.data)
    ELSE IF node.kind = "link" THEN Len(node.link)
    ELSE 0

\* filepath.walk: the calls of the walk function that are given no error,
\* in the walk's order (a directory, then its entries by name), and the
\* error that ended the walk.  Every walk function of the program returns
\* the error it is given, which ends the walk.
RECURSIVE WalkTree(_, _)
RECURSIVE WalkNames(_, _, _, _)
WalkTree(fs, path) ==
    LET Dirs(below) ==
            [visits |-> <<[path |-> path, isDir |-> TRUE, size |-> 0]>>
                        \o below.visits,
             err |-> below.err]
        At(physical) ==
            IF fs[physical].kind # "dir"
                THEN [visits |-> <<[path |-> path, isDir |-> FALSE,
                                    size |-> LstatSize(fs[physical])]>>,
                      err |-> ""]
            ELSE IF ~fs[physical].perm THEN [visits |-> <<>>, err |-> "EACCES"]
            ELSE Dirs(WalkNames(fs, path, SortStrings(DirNames(fs, physical)), 1))
    IN  At(Namei(fs, path, FALSE).path)

WalkNames(fs, path, names, i) ==
    LET Rest(one, more) ==
            [visits |-> one.visits \o more.visits, err |-> more.err]
        After(one) ==
            IF one.err # "" THEN one
            ELSE Rest(one, WalkNames(fs, path, names, i + 1))
    IN  IF i > Len(names) THEN [visits |-> <<>>, err |-> ""]
        ELSE After(WalkTree(fs, Join(path, names[i])))

\* filepath.Walk(root, fn)
Walk(fs, root) ==
    LET From(r) ==
            IF r.err # "" \/ ~r.exists THEN [visits |-> <<>>, err |-> "ENOENT"]
            ELSE WalkTree(fs, root)
    IN  From(Namei(fs, root, FALSE))

\* The elements of a sequence, one removed.
RemoveAt(list, k) == SubSeq(list, 1, k - 1) \o SubSeq(list, k + 1, Len(list))

\* Insertion sort by descending Size: an element moves left past the
\* elements of a smaller Size only, so equal sizes keep their order.
RECURSIVE InsertDesc(_, _)
InsertDesc(sorted, e) ==
    IF sorted = <<>> THEN <<e>>
    ELSE IF e.Size > sorted[Len(sorted)].Size
        THEN Append(InsertDesc(SubSeq(sorted, 1, Len(sorted) - 1), e),
                    sorted[Len(sorted)])
    ELSE Append(sorted, e)

RECURSIVE InsertionSortDesc(_, _)
InsertionSortDesc(list, n) ==
    IF n = 0 THEN <<>>
    ELSE InsertDesc(InsertionSortDesc(list, n - 1), list[n])

\* Every order of a list in which the sizes do not increase.
RECURSIVE DescendingOrders(_)
DescendingOrders(list) ==
    IF list = <<>> THEN {<<>>}
    ELSE UNION { { <<list[k]>> \o rest : rest \in DescendingOrders(RemoveAt(list, k)) } :
                 k \in { j \in 1..Len(list) :
                           \A m \in 1..Len(list) : list[m].Size <= list[j].Size } }

\* The slices sort.Slice may sort at most by insertion (sort.insertionSort).
MaxInsertionSort == 12

\* sort.Slice leaving the slice as it is.
SortSliceBySizeAsIs(list) == {list}

\* sort.Slice(list, Size descending): the results it may give.  A slice of
\* at most 12 elements is sorted by insertion; a longer one by a sort that
\* promises no order among equal elements.
SortSliceBySize(list) ==
    IF Len(list) <= MaxInsertionSort
        THEN {InsertionSortDesc(list, Len(list))}
    ELSE DescendingOrders(list)

\* TopN with nothing cut off.
TopNAll(list, count) == list

\* list[:count] when 0 < count < len(list), list otherwise.
TopN(list, count) ==
    IF count > 0 /\ count < Len(list) THEN SubSeq(list, 1, count) ELSE list

(***************************************************************************)
(* Section 8: the directory analyzer                                       *)
(***************************************************************************)

sNoExtension ==
    <<"[", "n", "o", " ", "e", "x", "t", "e", "n", "s", "i", "o", "n", "]">>

\* m[key] += n on a Go map.
MapAdd(m, key, n) ==
    IF key \in DOMAIN m THEN [m EXCEPT ![key] = @ + n] ELSE (key :> n) @@ m

\* The DirectoryInfo AnalyzeDirectory starts from.  A nil slice is the empty
\* sequence: the program never builds an empty slice that is not nil.
NewDirectoryInfo(imagePath) ==
    [Path |-> imagePath, Size |-> 0, FileCount |-> 0, DirCount |-> 0,
     Files |-> <<>>, FileTypes |-> <<>>, Dirs |-> <<>>]

\* The walk function counting the root as well.
DirectoryVisitRoot(info, imagePath, verbose, v) ==
    LET Counted(relPath, ext) ==
            IF v.isDir
                THEN [info EXCEPT !.DirCount = @ + 1,
                                  !.Dirs = IF verbose THEN Append(@, relPath) ELSE @]
            ELSE [info EXCEPT
                    !.FileCount = @ + 1,
                    !.Size = @ + v.size,
                    !.FileTypes = MapAdd(@, IF ext = <<>> THEN sNoExtension ELSE ext, 1),
                    !.Files = IF verbose THEN Append(@, relPath) ELSE @]
    IN  Counted(Rel(imagePath, v.path), ToLower(Ext(v.path)))

\* The walk function of AnalyzeDirectory on one entry.
DirectoryVisit(info, imagePath, verbose, v) ==
    LET Counted(relPath, ext) ==
            IF v.isDir
                THEN [info EXCEPT !.DirCount = @ + 1,
                                  !.Dirs = IF verbose THEN Append(@, relPath) ELSE @]
            ELSE [info EXCEPT
                    !.FileCount = @ + 1,
                    !.Size = @ + v.size,
                    !.FileTypes = MapAdd(@, IF ext = <<>> THEN sNoExtension ELSE ext, 1),
                    !.Files = IF verbose THEN Append(@, relPath) ELSE @]
    IN  IF v.path = imagePath THEN info
        ELSE Counted(Rel(imagePath, v.path), ToLower(Ext(v.path)))

RECURSIVE DirectoryFold(_, _, _, _, _)
DirectoryFold(info, imagePath, verbose, visits, i) ==
    IF i > Len(visits) THEN info
    ELSE DirectoryFold(DirectoryVisit(info, imagePath, verbose, visits[i]),
                       imagePath, verbose, visits, i + 1)

\* sort.Strings on a slice: ascending byte order.
RECURSIVE InsertString(_, _)
InsertString(sorted, e) ==
    IF sorted = <<>> THEN <<e>>
    ELSE IF StrLess(e, sorted[Len(sorted)])
        THEN Append(InsertString(SubSeq(sorted, 1, Len(sorted) - 1), e),
                    sorted[Len(sorted)])
    ELSE Append(sorted, e)

RECURSIVE SortStringList(_)
SortStringList(list) ==
    IF list = <<>> THEN <<>>
    ELSE InsertString(SortStringList(SubSeq(list, 1, Len(list) - 1)),
                      list[Len(list)])

\* AnalyzeDirectory without its sort.
AnalyzeDirectoryUnsorted(fs, imagePath, verbose) ==
    LET Walked(w) ==
            [info |-> DirectoryFold(NewDirectoryInfo(imagePath), imagePath,
                                    verbose, w.visits, 1),
             err |-> w.err]
    IN  Walked(Walk(fs, imagePath))

\* AnalyzeDirectory(imagePath, verbose): the DirectoryInfo and the error.
AnalyzeDirectory(fs, imagePath, verbose) ==
    LET Sorted(info) ==
            IF verbose
                THEN [info EXCEPT !.Files = SortStringList(@),
                                  !.Dirs = SortStringList(@)]
            ELSE info
        Walked(w) ==
            [info |-> Sorted(DirectoryFold(NewDirectoryInfo(imagePath), imagePath,
                                           verbose, w.visits, 1)),
             err |-> w.err]
    IN  Walked(Walk(fs, imagePath))

(***************************************************************************)
(* Section 9: the size analyzer                                            *)
(***************************************************************************)

\* The number of files AnalyzeSize asks getLargestFiles for.
TopFilesCount == 10

\* The number of directories AnalyzeSize asks GetTopDirectories for.
TopDirsCount == 5

\* getDirSize(path): the sizes of the entries that are no directories,
\* summed over the walk.
RECURSIVE SumFileSizes(_, _)
SumFileSizes(visits, i) ==
    IF i > Len(visits) THEN 0
    ELSE (IF visits[i].isDir THEN 0 ELSE visits[i].size)
         + SumFileSizes(visits, i + 1)

getDirSize(fs, path) ==
    LET Walked(w) == [size |-> SumFileSizes(w.visits, 1), err |-> w.err]
    IN  Walked(Walk(fs, path))

\* The size os.Stat reports for the entry a path leads to.
StatSize(fs, path) == LstatSize(fs[Namei(fs, path, TRUE).path])

\* getLayerSizes(imagePath): one LayerSize for each layer tarball, by
\* descending size.
getLayerSizes(fs, imagePath) ==
    LET Sized(layerDirs) ==
            [k \in 1..Len(layerDirs) |->
               [ID |-> Base(Dir(layerDirs[k])), Size |-> StatSize(fs, layerDirs[k])]]
        Each(layerDirs) ==
            IF \E k \in 1..Len(layerDirs) : ~StatOk(fs, layerDirs[k])
                THEN {[list |-> <<>>, err |-> "stat"]}
            ELSE { [list |-> sorted, err |-> ""] :
                     sorted \in SortSliceBySize(Sized(layerDirs)) }
    IN  Each(Glob(fs, Join(imagePath, sLayerPattern)))

\* The entries of a walk that are no directories, as FileSize values.
RECURSIVE FileSizes(_, _, _)
FileSizes(imagePath, visits, i) ==
    IF i > Len(visits) THEN <<>>
    ELSE IF visits[i].isDir THEN FileSizes(imagePath, visits, i + 1)
    ELSE <<[Path |-> Rel(imagePath, visits[i].path), Size |-> visits[i].size]>>
         \o FileSizes(imagePath, visits, i + 1)

\* getLargestFiles(imagePath, count)
getLargestFiles(fs, imagePath, count) ==
    LET Walked(w) ==
            IF w.err # "" THEN {[list |-> <<>>, err |-> w.err]}
            ELSE { [list |-> TopN(sorted, count), err |-> ""] :
                     sorted \in SortSliceBySize(FileSizes(imagePath, w.visits, 1)) }
    IN  Walked(Walk(fs, imagePath))

\* The walk function of GetTopDirectories over the entries of a walk: each
\* directory but the root with its getDirSize, up to the first error.
RECURSIVE DirSizes(_, _, _, _)
DirSizes(fs, imagePath, visits, i) ==
    LET Rest(d, more) ==
            [list |-> <<[Path |-> Rel(imagePath, visits[i].path),
                         Size |-> d.size]>> \o more.list,
             err |-> more.err]
        Sized(d) ==
            IF d.err # "" THEN [list |-> <<>>, err |-> d.err]
            ELSE Rest(d, DirSizes(fs, imagePath, visits, i + 1))
    IN  IF i > Len(visits) THEN [list |-> <<>>, err |-> ""]
        ELSE IF visits[i].path = imagePath \/ ~visits[i].isDir
            THEN DirSizes(fs, imagePath, visits, i + 1)
        ELSE Sized(getDirSize(fs, visits[i].path))

\* GetTopDirectories(imagePath, count)
GetTopDirectories(fs, imagePath, count) ==
    LET Listed(dirs, err) ==
            IF dirs.err # "" THEN {[list |-> <<>>, err |-> dirs.err]}
            ELSE IF err # "" THEN {[list |-> <<>>, err |-> err]}
            ELSE { [list |-> TopN(sorted, count), err |-> ""] :
                     sorted \in SortSliceBySize(dirs.list) }
        Walked(w) == Listed(DirSizes(fs, imagePath, w.visits, 1), w.err)
    IN  Walked(Walk(fs, imagePath))

\* The walk function of getFileTypeBreakdown over the entries of a walk.
RECURSIVE BreakdownFold(_, _, _)
BreakdownFold(m, visits, i) ==
    LET Added(ext) ==
            BreakdownFold(MapAdd(m, IF ext = <<>> THEN sNoExtension ELSE ext,
                                 visits[i].size),
                          visits, i + 1)
    IN  IF i > Len(visits) THEN m
        ELSE IF visits[i].isDir THEN BreakdownFold(m, visits, i + 1)
        ELSE Added(Ext(visits[i].path))

\* getFileTypeBreakdown(imagePath): the map and the error.
getFileTypeBreakdown(fs, imagePath) ==
    LET Walked(w) == [map |-> BreakdownFold(<<>>, w.visits, 1), err |-> w.err]
    IN  Walked(Walk(fs, imagePath))

\* AnalyzeSize(imagePath): the results it may return, each a SizeInfo (info
\* holds it; nil is the empty sequence) and an error.
AnalyzeSize(fs, imagePath) ==
    LET Failed(e) == {[info |-> <<>>, err |-> e]}
        Info(total, layers, files, dirs, breakdown) ==
            IF total.err # "" THEN Failed(total.err)
            ELSE IF layers.err # "" THEN Failed(layers.err)
            ELSE IF files.err # "" THEN Failed(files.err)
            ELSE IF dirs.err # "" THEN Failed(dirs.err)
            ELSE IF breakdown.err # "" THEN Failed(breakdown.err)
            ELSE {[info |-> <<[TotalSize |-> total.size,
                               LayerSizes |-> layers.list,
                               LargestFiles |-> files.list,
                               LargestDirs |-> dirs.list,
                               FileTypeBreakdown |-> breakdown.map]>>,
                   err |-> ""]}
        All(total, breakdown) ==
            UNION { Info(total, layers, files, dirs, breakdown) :
                      layers \in getLayerSizes(fs, imagePath),
                      files \in getLargestFiles(fs, imagePath, TopFilesCount),
                      dirs \in GetTopDirectories(fs, imagePath, TopDirsCount) }
    IN  All(getDirSize(fs, imagePath), getFileTypeBreakdown(fs, imagePath))

(***************************************************************************)
(* Section 9a: the security analyzer                                       *)
(***************************************************************************)

\* The sensitivePatterns of findSensitiveFiles.
sensitivePatterns ==
    <<[pattern |-> <<".", "e", "n", "v">>,
       severity |-> "HIGH", desc |-> "Environment file may contain sensitive information"],
      [pattern |-> <<".", "a", "w", "s", "/", "c", "r", "e", "d", "e", "n", "t", "i", "a", "l", "s">>,
       severity |-> "HIGH", desc |-> "AWS credentials file"],
      [pattern |-> <<".", "s", "s", "h", "/", "i", "d", "_", "r", "s", "a">>,
       severity |-> "HIGH", desc |-> "SSH private key"],
      [pattern |-> <<".", "s", "s", "h", "/", "i", "d", "_", "d", "s", "a">>,
       severity |-> "HIGH", desc |-> "SSH private key"],
      [pattern |-> <<".", "s", "s", "h", "/", "i", "d", "_", "e", "c", "d", "s", "a">>,
       severity |-> "HIGH", desc |-> "SSH private key"],
      [pattern |-> <<".", "s", "s", "h", "/", "i", "d", "_", "e", "d", "2", "5", "5", "1", "9">>,
       severity |-> "HIGH", desc |-> "SSH private key"],
      [pattern |-> <<"c", "o", "n", "f", "i", "g", ".", "j", "s", "o", "n">>,
       severity |-> "MEDIUM", desc |-> "Configuration file may contain sensitive information"],
      [pattern |-> <<"c", "r", "e", "d", "e", "n", "t", "i", "a", "l", "s", ".", "j", "s", "o", "n">>,
       severity |-> "HIGH", desc |-> "Credentials file"],
      [pattern |-> <<"s", "e", "c", "r", "e", "t", "s", ".", "j", "s", "o", "n">>,
       severity |-> "HIGH", desc |-> "Secrets file"],
      [pattern |-> <<"p", "a", "s", "s", "w", "o", "r", "d">>,
       severity |-> "HIGH", desc |-> "Password file"],
      [pattern |-> <<".", "n", "p", "m", "r", "c">>,
       severity |-> "MEDIUM", desc |-> "NPM configuration file may contain tokens"],
      [pattern |-> <<".", "d", "o", "c", "k", "e", "r", "c", "f", "g">>,
       severity |-> "MEDIUM", desc |-> "Docker configuration file may contain credentials"],
      [pattern |-> <<".", "d", "o", "c", "k", "e", "r", "/", "c", "o", "n", "f", "i", "g", ".", "j", "s", "o", "n">>,
       severity |-> "MEDIUM", desc |-> "Docker configuration file may contain credentials"],
      [pattern |-> <<"i", "d", "_", "r", "s", "a">>,
       severity |-> "HIGH", desc |-> "SSH private key"],
      [pattern |-> <<"i", "d", "_", "d", "s", "a">>,
       severity |-> "HIGH", desc |-> "SSH private key"],
      [pattern |-> <<"i", "d", "_", "e", "c", "d", "s", "a">>,
       severity |-> "HIGH", desc |-> "SSH private key"],
      [pattern |-> <<"i", "d", "_", "e", "d", "2", "5", "5", "1", "9">>,
       severity |-> "HIGH", desc |-> "SSH private key"]>>

\* SensitiveFold with the last pattern a path holds, not the first.
RECURSIVE SensitiveFoldLast(_, _, _)
SensitiveFoldLast(imagePath, visits, i) ==
    LET Matches(relPath) ==
            { k \in DOMAIN sensitivePatterns :
                Contains(ToLower(relPath), sensitivePatterns[k].pattern) }
        Last(K) == CHOOSE k \in K : \A j \in K : k >= j
        Found(relPath, K) ==
            IF K = {} THEN <<>>
            ELSE <<[Type |-> "SENSITIVE_FILE", Path |-> relPath,
                    Description |-> sensitivePatterns[Last(K)].desc,
                    Severity |-> sensitivePatterns[Last(K)].severity]>>
        On(relPath) == Found(relPath, Matches(relPath))
    IN  IF i > Len(visits) THEN <<>>
        ELSE IF visits[i].isDir THEN SensitiveFoldLast(imagePath, visits, i + 1)
        ELSE On(Rel(imagePath, visits[i].path))
             \o SensitiveFoldLast(imagePath, visits, i + 1)

\* The walk function of findSensitiveFiles over the entries of a walk: an
\* issue for each file whose path from the root, in lowercase, contains a
\* pattern, with the first such pattern.
RECURSIVE SensitiveFold(_, _, _)
SensitiveFold(imagePath, visits, i) ==
    LET Matches(relPath) ==
            { k \in DOMAIN sensitivePatterns :
                Contains(ToLower(relPath), sensitivePatterns[k].pattern) }
        First(K) == CHOOSE k \in K : \A j \in K : k <= j
        Found(relPath, K) ==
            IF K = {} THEN <<>>
            ELSE <<[Type |-> "SENSITIVE_FILE", Path |-> relPath,
                    Description |-> sensitivePatterns[First(K)].desc,
                    Severity |-> sensitivePatterns[First(K)].severity]>>
        On(relPath) == Found(relPath, Matches(relPath))
    IN  IF i > Len(visits) THEN <<>>
        ELSE IF visits[i].isDir THEN SensitiveFold(imagePath, visits, i + 1)
        ELSE On(Rel(imagePath, visits[i].path))
             \o SensitiveFold(imagePath, visits, i + 1)

\* findSensitiveFiles(imagePath): the issues and the error.
findSensitiveFiles(fs, imagePath) ==
    LET Walked(w) == [list |-> SensitiveFold(imagePath, w.visits, 1), err |-> w.err]
    IN  Walked(Walk(fs, imagePath))

\* The binaryExts of isBinaryFile.
binaryExts ==
    {<<".", "j", "p", "g">>,
     <<".", "j", "p", "e", "g">>,
     <<".", "p", "n", "g">>,
     <<".", "g", "i", "f">>,
     <<".", "b", "m", "p">>,
     <<".", "p", "d", "f">>,
     <<".", "z", "i", "p">>,
     <<".", "t", "a", "r">>,
     <<".", "g", "z">>,
     <<".", "t", "g", "z">>,
     <<".", "r", "a", "r">>,
     <<".", "7", "z">>,
     <<".", "e", "x", "e">>,
     <<".", "d", "l", "l">>,
     <<".", "s", "o">>,
     <<".", "d", "y", "l", "i", "b">>,
     <<".", "b", "i", "n">>,
     <<".", "d", "a", "t">>,
     <<".", "i", "s", "o">>,
     <<".", "i", "m", "g">>}

\* A line of text of a file, with its line end.
Line(text) ==
    [typeflag |-> "line", name |-> text, linkname |-> <<>>, body |-> <<>>,
     mode |-> TRUE, short |-> FALSE]

\* A line of text longer than bufio.MaxScanTokenSize.
LongLine ==
    [typeflag |-> "long", name |-> <<>>, linkname |-> <<>>, body |-> <<>>,
     mode |-> TRUE, short |-> FALSE]

\* A JSON document: an object with the members dependencies and
\* devDependencies, each the pairs of a name and a version in the order
\* the document has them in.
Json(deps, devDeps) ==
    [typeflag |-> "json", name |-> <<>>, linkname |-> <<>>,
     body |-> <<deps, devDeps>>, mode |-> TRUE, short |-> FALSE]

\* The blocks that hold no null byte.
TextFlags == {"data", "line", "long", "json"}

\* isBinaryFile(path): by the extension, or by a null byte at the start of
\* the file.  The header of a tar entry and of a gzip stream hold null
\* bytes, text and a block of other data hold none; a directory cannot be
\* read.
isBinaryFile(fs, path) ==
    LET Opened(o) ==
            /\ o.err = ""
            /\ fs[o.file].kind = "file"
            /\ Len(fs[o.file].data) >= 1
            /\ fs[o.file].data[1].typeflag \notin TextFlags
    IN  ToLower(Ext(path)) \in binaryExts \/ Opened(Open(fs, path))

\* The secretPatterns of findHardcodedSecrets.  Each regular expression is
\* (?i)WORDS\s*=\s*['"]([^'"]{MIN,})['"], WORDS being words with [_-]?
\* between them.
secretPatterns ==
    <<[words |-> <<<<"p", "a", "s", "s", "w", "o", "r", "d">>>>,
       min |-> 8, severity |-> "HIGH", desc |-> "Hardcoded password"],
      [words |-> <<<<"p", "a", "s", "s", "w", "d">>>>,
       min |-> 8, severity |-> "HIGH", desc |-> "Hardcoded password"],
      [words |-> <<<<"p", "w", "d">>>>,
       min |-> 8, severity |-> "HIGH", desc |-> "Hardcoded password"],
      [words |-> <<<<"s", "e", "c", "r", "e", "t">>>>,
       min |-> 8, severity |-> "HIGH", desc |-> "Hardcoded secret"],
      [words |-> <<<<"a", "p", "i">>, <<"k", "e", "y">>>>,
       min |-> 8, severity |-> "HIGH", desc |-> "Hardcoded API key"],
      [words |-> <<<<"a", "c", "c", "e", "s", "s">>, <<"k", "e", "y">>>>,
       min |-> 8, severity |-> "HIGH", desc |-> "Hardcoded access key"],
      [words |-> <<<<"t", "o", "k", "e", "n">>>>,
       min |-> 8, severity |-> "HIGH", desc |-> "Hardcoded token"],
      [words |-> <<<<"a", "w", "s">>, <<"a", "c", "c", "e", "s", "s">>, <<"k", "e", "y">>, <<"i", "d">>>>,
       min |-> 16, severity |-> "HIGH", desc |-> "Hardcoded AWS access key"],
      [words |-> <<<<"a", "w", "s">>, <<"s", "e", "c", "r", "e", "t">>, <<"a", "c", "c", "e", "s", "s">>, <<"k", "e", "y">>>>,
       min |-> 16, severity |-> "HIGH", desc |-> "Hardcoded AWS secret key"]>>

\* The characters \s of a regular expression matches.
RegexpSpace == {" ", "\t", "\n", "\f", "\r"}

Quotes == {"'", "\""}

\* The word is in the line at i, in any case of its letters.
WordAt(line, i, word) ==
    /\ i + Len(word) - 1 <= Len(line)
    /\ \A j \in 1..Len(word) : LowerChar(line[i + j - 1]) = word[j]

\* The index after an optional _ or - at i.
SkipSeparator(line, i) ==
    IF i <= Len(line) /\ line[i] \in {"_", "-"} THEN i + 1 ELSE i

\* The index after the words from the k-th on matched at i, 0 when they do
\* not match there.
RECURSIVE WordsEnd(_, _, _, _)
WordsEnd(line, i, wordList, k) ==
    IF ~WordAt(line, i, wordList[k]) THEN 0
    ELSE IF k = Len(wordList) THEN i + Len(wordList[k])
    ELSE WordsEnd(line, SkipSeparator(line, i + Len(wordList[k])), wordList, k + 1)

\* The index of the first character from i on that is not in the set, the
\* length of the line and one when there is none.
RECURSIVE SkipWhile(_, _, _)
SkipWhile(line, i, chars) ==
    IF i <= Len(line) /\ line[i] \in chars THEN SkipWhile(line, i + 1, chars)
    ELSE i

RECURSIVE SkipUntil(_, _, _)
SkipUntil(line, i, chars) ==
    IF i <= Len(line) /\ line[i] \notin chars THEN SkipUntil(line, i + 1, chars)
    ELSE i

\* The pattern matches the line from i on.
MatchAt(line, i, pat) ==
    LET Closed(q, e) == e - (q + 1) >= pat.min /\ e <= Len(line)
        Quoted(q) ==
            /\ q <= Len(line)
            /\ line[q] \in Quotes
            /\ Closed(q, SkipUntil(line, q + 1, Quotes))
        Assigned(e) ==
            /\ e <= Len(line)
            /\ line[e] = "="
            /\ Quoted(SkipWhile(line, e + 1, RegexpSpace))
        After(j) == j > 0 /\ Assigned(SkipWhile(line, j, RegexpSpace))
    IN  After(WordsEnd(line, i, pat.words, 1))

\* regexp.MatchString(line)
MatchString(pat, line) == \E i \in 1..Len(line) : MatchAt(line, i, pat)

Digits == <<"0", "1", "2", "3", "4", "5", "6", "7", "8", "9">>

\* fmt.Sprintf("%d", n) for n >= 0
RECURSIVE Itoa(_)
Itoa(n) ==
    IF n < 10 THEN <<Digits[n + 1]>>
    ELSE Itoa(n \div 10) \o <<Digits[(n % 10) + 1]>>

\* The issues of the same line with every matching pattern.
LineIssuesEach(relPath, block, lineNum) ==
    LET Issue(k) ==
            [Type |-> "HARDCODED_SECRET",
             Path |-> relPath \o <<":">> \o Itoa(lineNum),
             Description |-> secretPatterns[k].desc,
             Severity |-> secretPatterns[k].severity]
        RECURSIVE From(_)
        From(k) ==
            IF k > Len(secretPatterns) THEN <<>>
            ELSE (IF MatchString(secretPatterns[k], block.name)
                     THEN <<Issue(k)>> ELSE <<>>) \o From(k + 1)
    IN  IF block.typeflag # "line" THEN <<>> ELSE From(1)

\* The loop over secretPatterns for the line lineNum of a file: the issue of
\* the first pattern that matches the line.  A block that is no line of
\* text is a line no pattern matches.
LineIssues(relPath, block, lineNum) ==
    LET Matching ==
            { k \in DOMAIN secretPatterns :
                MatchString(secretPatterns[k], block.name) }
        First(K) == CHOOSE k \in K : \A j \in K : k <= j
        Found(K) ==
            IF K = {} THEN <<>>
            ELSE <<[Type |-> "HARDCODED_SECRET",
                    Path |-> relPath \o <<":">> \o Itoa(lineNum),
                    Description |-> secretPatterns[First(K)].desc,
                    Severity |-> secretPatterns[First(K)].severity]>>
    IN  IF block.typeflag # "line" THEN <<>> ELSE Found(Matching)

\* The scan of a file from its line lineNum on: the issues, and the error
\* of the scanner, which a line too long for it stops.
RECURSIVE ScanFile(_, _, _)
ScanFile(relPath, data, lineNum) ==
    LET More(found, rest) == [list |-> found \o rest.list, err |-> rest.err]
    IN  IF lineNum > Len(data) THEN [list |-> <<>>, err |-> ""]
        ELSE IF data[lineNum].typeflag = "long"
            THEN [list |-> <<>>, err |-> "ErrTooLong"]
        ELSE More(LineIssues(relPath, data[lineNum], lineNum),
                  ScanFile(relPath, data, lineNum + 1))

\* The walk function of findHardcodedSecrets over the entries of a walk: the
\* issues and the error it ends the walk with.  Directories and binary
\* files are skipped, and so is a file that cannot be opened; reading what
\* a symbolic link to a directory opens fails.  The error of the scanner is
\* returned to the walk, which ends with it.
RECURSIVE SecretsFold(_, _, _, _)
SecretsFold(fs, imagePath, visits, i) ==
    LET More(found, rest) == [list |-> found \o rest.list, err |-> rest.err]
        Scanned(r) ==
            IF r.err # "" THEN r
            ELSE More(r.list, SecretsFold(fs, imagePath, visits, i + 1))
        Opened(o) ==
            IF o.err # "" THEN SecretsFold(fs, imagePath, visits, i + 1)
            ELSE IF fs[o.file].kind = "dir" THEN [list |-> <<>>, err |-> "EISDIR"]
            ELSE Scanned(ScanFile(Rel(imagePath, visits[i].path),
                                  fs[o.file].data, 1))
    IN  IF i > Len(visits) THEN [list |-> <<>>, err |-> ""]
        ELSE IF visits[i].isDir \/ isBinaryFile(fs, visits[i].path)
            THEN SecretsFold(fs, imagePath, visits, i + 1)
        ELSE Opened(Open(fs, visits[i].path))

\* findHardcodedSecrets(imagePath): the issues and the error.
findHardcodedSecrets(fs, imagePath) ==
    LET Ended(w, r) ==
            [list |-> r.list, err |-> IF r.err # "" THEN r.err ELSE w.err]
        Walked(w) == Ended(w, SecretsFold(fs, imagePath, w.visits, 1))
    IN  Walked(Walk(fs, imagePath))

sPackageJson == <<"p", "a", "c", "k", "a", "g", "e", ".", "j", "s", "o", "n">>

sRequirementsTxt == <<"r", "e", "q", "u", "i", "r", "e", "m", "e", "n", "t", "s", ".", "t", "x", "t">>

sGemfileLock == <<"G", "e", "m", "f", "i", "l", "e", ".", "l", "o", "c", "k">>

sGoMod == <<"g", "o", ".", "m", "o", "d">>

\* The names findVulnerablePackages takes for package files.
packageFiles == {sPackageJson, sRequirementsTxt, sGemfileLock, sGoMod}

\* The vulnPackages of checkNodePackages.
nodeVulnPackages ==
    (<<"l", "o", "d", "a", "s", "h">> :>
       [version |-> <<"<", "4", ".", "1", "7", ".", "2", "1">>, severity |-> "HIGH",
        desc |-> "Prototype Pollution in lodash", fixVersion |-> ">=4.17.21"]) @@
    (<<"m", "i", "n", "i", "m", "i", "s", "t">> :>
       [version |-> <<"<", "1", ".", "2", ".", "6">>, severity |-> "HIGH",
        desc |-> "Prototype Pollution in minimist", fixVersion |-> ">=1.2.6"]) @@
    (<<"n", "o", "d", "e", "-", "f", "e", "t", "c", "h">> :>
       [version |-> <<"<", "2", ".", "6", ".", "7">>, severity |-> "HIGH",
        desc |-> "Exposure of Sensitive Information in node-fetch", fixVersion |-> ">=2.6.7"]) @@
    (<<"a", "x", "i", "o", "s">> :>
       [version |-> <<"<", "0", ".", "2", "1", ".", "1">>, severity |-> "HIGH",
        desc |-> "Server-Side Request Forgery in axios", fixVersion |-> ">=0.21.1"])

\* The vulnPackages of checkPythonPackages.
pythonVulnPackages ==
    (<<"d", "j", "a", "n", "g", "o">> :>
       [version |-> <<"<", "3", ".", "2", ".", "1", "4">>, severity |-> "HIGH",
        desc |-> "SQL Injection in Django", fixVersion |-> ">=3.2.14"]) @@
    (<<"f", "l", "a", "s", "k">> :>
       [version |-> <<"<", "2", ".", "0", ".", "1">>, severity |-> "MEDIUM",
        desc |-> "Open Redirect in Flask", fixVersion |-> ">=2.0.1"]) @@
    (<<"r", "e", "q", "u", "e", "s", "t", "s">> :>
       [version |-> <<"<", "2", ".", "2", "6", ".", "0">>, severity |-> "MEDIUM",
        desc |-> "CRLF Injection in Requests", fixVersion |-> ">=2.26.0"]) @@
    (<<"p", "i", "l", "l", "o", "w">> :>
       [version |-> <<"<", "9", ".", "0", ".", "0">>, severity |-> "HIGH",
        desc |-> "Buffer Overflow in Pillow", fixVersion |-> ">=9.0.0"])

\* The orders a map with the keys keys may be ranged over: every one.
Orders(keys) ==
    { o \in [1..Cardinality(keys) -> keys] :
        \A i, j \in DOMAIN o : o[i] = o[j] => i = j }

\* The map json.Unmarshal makes of the pairs of an object: of two pairs of
\* one name the later one stays.
ObjectMap(pairs) ==
    LET Names == { pairs[i][1] : i \in DOMAIN pairs }
        Last(name) ==
            CHOOSE i \in DOMAIN pairs :
                /\ pairs[i][1] = name
                /\ \A j \in DOMAIN pairs : pairs[j][1] = name => j <= i
    IN  [name \in Names |-> pairs[Last(name)][2]]

\* version < vuln.version of checkNodePackages and checkPythonPackages.
VersionBelow(version, bound) == StrLess(version, bound)

\* One loop of checkNodePackages over a map ranged over in the order order,
\* from its i-th key on.
RECURSIVE DepIssues(_, _, _, _)
DepIssues(deps, order, dev, i) ==
    LET Stripped(version) ==
            IF HasPrefix(version, <<"^">>) \/ HasPrefix(version, <<"~">>)
                THEN SubSeq(version, 2, Len(version))
            ELSE version
        Issue(name, version, vuln) ==
            IF VersionBelow(version, vuln.version)
                THEN <<[Type |-> "VULNERABLE_PACKAGE",
                        Path |-> sPackageJson \o <<":", " ">> \o name \o <<"@">>
                                 \o version
                                 \o (IF dev THEN <<" ", "(", "d", "e", "v", ")">>
                                     ELSE <<>>),
                        Description |-> vuln.desc \o ". Update to " \o vuln.fixVersion,
                        Severity |-> vuln.severity]>>
            ELSE <<>>
        Of(name) ==
            IF name \in DOMAIN nodeVulnPackages
                THEN Issue(name, Stripped(deps[name]), nodeVulnPackages[name])
            ELSE <<>>
    IN  IF i > Len(order) THEN <<>>
        ELSE Of(order[i]) \o DepIssues(deps, order, dev, i + 1)

\* checkNodePackages(path): the results it may return, each the issues and
\* the error.  The file is read whole and parsed; a file that is not one
\* JSON document does not parse.
checkNodePackages(fs, path) ==
    LET Parsed(deps, devDeps) ==
            { [list |-> DepIssues(deps, o, FALSE, 1) \o DepIssues(devDeps, d, TRUE, 1),
               err |-> ""] :
                o \in Orders(DOMAIN deps), d \in Orders(DOMAIN devDeps) }
        Read(data) ==
            IF Len(data) # 1 \/ data[1].typeflag # "json"
                THEN {[list |-> <<>>, err |-> "json"]}
            ELSE Parsed(ObjectMap(data[1].body[1]), ObjectMap(data[1].body[2]))
        Opened(o) ==
            IF o.err # "" THEN {[list |-> <<>>, err |-> o.err]}
            ELSE IF fs[o.file].kind = "dir" THEN {[list |-> <<>>, err |-> "EISDIR"]}
            ELSE Read(fs[o.file].data)
    IN  Opened(Open(fs, path))

\* strings.Index(s, substr): from 1, 0 when substr is not in s.
Index(s, substr) ==
    LET At(I) == IF I = {} THEN 0 ELSE CHOOSE i \in I : \A j \in I : i <= j
    IN  At({ i \in 1..(Len(s) - Len(substr) + 1) :
               SubSeq(s, i, i + Len(substr) - 1) = substr })

\* The white space of strings.TrimSpace in ASCII.
AsciiSpace == {" ", "\t", "\n", "\f", "\r"}

\* strings.TrimSpace(s)
RECURSIVE TrimSpace(_)
TrimSpace(s) ==
    IF s = <<>> THEN s
    ELSE IF s[1] \in AsciiSpace THEN TrimSpace(Tail(s))
    ELSE IF s[Len(s)] \in AsciiSpace THEN TrimSpace(SubSeq(s, 1, Len(s) - 1))
    ELSE s

\* The loop of checkPythonPackages over the lines of a file from the i-th
\* on: the issues and the error of the scanner.
RECURSIVE RequirementIssues(_, _)
RequirementIssues(data, i) ==
    LET More(found, rest) == [list |-> found \o rest.list, err |-> rest.err]
        Issue(name, version, vuln) ==
            IF VersionBelow(version, vuln.version)
                THEN <<[Type |-> "VULNERABLE_PACKAGE",
                        Path |-> sRequirementsTxt \o <<":", " ">> \o name
                                 \o <<"=", "=">> \o version,
                        Description |-> vuln.desc \o ". Update to " \o vuln.fixVersion,
                        Severity |-> vuln.severity]>>
            ELSE <<>>
        Named(name, version) ==
            IF name \in DOMAIN pythonVulnPackages
                THEN Issue(name, version, pythonVulnPackages[name])
            ELSE <<>>
        Parts(line, k, rest) ==
            IF k = 0 \/ Index(rest, <<"=", "=">>) # 0 THEN <<>>
            ELSE Named(TrimSpace(SubSeq(line, 1, k - 1)), TrimSpace(rest))
        Halves(line, k) == Parts(line, k, SubSeq(line, k + 2, Len(line)))
        Of(block) ==
            IF block.typeflag # "line" THEN <<>>
            ELSE IF HasPrefix(block.name, <<"#">>) \/ TrimSpace(block.name) = <<>>
                THEN <<>>
            ELSE Halves(block.name, Index(block.name, <<"=", "=">>))
    IN  IF i > Len(data) THEN [list |-> <<>>, err |-> ""]
        ELSE IF data[i].typeflag = "long" THEN [list |-> <<>>, err |-> "ErrTooLong"]
        ELSE More(Of(data[i]), RequirementIssues(data, i + 1))

\* checkPythonPackages(path): the issues and the error.
checkPythonPackages(fs, path) ==
    LET Opened(o) ==
            IF o.err # "" THEN [list |-> <<>>, err |-> o.err]
            ELSE IF fs[o.file].kind = "dir" THEN [list |-> <<>>, err |-> "EISDIR"]
            ELSE RequirementIssues(fs[o.file].data, 1)
    IN  Opened(Open(fs, path))

\* checkRubyPackages(path) and checkGoPackages(path)
checkRubyPackages(fs, path) == [list |-> <<>>, err |-> ""]

checkGoPackages(fs, path) == [list |-> <<>>, err |-> ""]

\* The issues of a package file as its check returns them.
WithOwnPath(issues, relPath) == issues

\* The issues of a package file with relPath for the Path of each.
WithPath(issues, relPath) ==
    [k \in DOMAIN issues |-> [issues[k] EXCEPT !.Path = relPath]]

\* The walk function of findVulnerablePackages over the entries of a walk:
\* the lists of issues it may append.  A file of the name of a package file
\* is checked; when its check fails the file adds nothing.
RECURSIVE PackagesFold(_, _, _, _)
PackagesFold(fs, imagePath, visits, i) ==
    LET Check(baseName, path) ==
            IF baseName = sPackageJson THEN checkNodePackages(fs, path)
            ELSE IF baseName = sRequirementsTxt THEN {checkPythonPackages(fs, path)}
            ELSE IF baseName = sGemfileLock THEN {checkRubyPackages(fs, path)}
            ELSE {checkGoPackages(fs, path)}
        Added(r, relPath) ==
            IF r.err # "" THEN <<>> ELSE WithPath(r.list, relPath)
        Each(checks, relPath, rests) ==
            { Added(r, relPath) \o rest : r \in checks, rest \in rests }
    IN  IF i > Len(visits) THEN {<<>>}
        ELSE IF visits[i].isDir \/ Base(visits[i].path) \notin packageFiles
            THEN PackagesFold(fs, imagePath, visits, i + 1)
        ELSE Each(Check(Base(visits[i].path), visits[i].path),
                  Rel(imagePath, visits[i].path),
                  PackagesFold(fs, imagePath, visits, i + 1))

\* findVulnerablePackages(imagePath): the results it may return, each the
\* issues and the error.
findVulnerablePackages(fs, imagePath) ==
    LET Walked(w) ==
            { [list |-> list, err |-> w.err] :
                list \in PackagesFold(fs, imagePath, w.visits, 1) }
    IN  Walked(Walk(fs, imagePath))

\* CountSeverity with the first issue not looked at.
RECURSIVE CountSeverityRest(_, _, _)
CountSeverityRest(issues, severity, i) ==
    IF i + 1 > Len(issues) THEN 0
    ELSE (IF issues[i + 1].Severity = severity THEN 1 ELSE 0)
         + CountSeverityRest(issues, severity, i + 1)

\* The number of issues of a severity.
RECURSIVE CountSeverity(_, _, _)
CountSeverity(issues, severity, i) ==
    IF i > Len(issues) THEN 0
    ELSE (IF issues[i].Severity = severity THEN 1 ELSE 0)
         + CountSeverity(issues, severity, i + 1)

\* AnalyzeSecurity with the secrets appended before the sensitive files.
AnalyzeSecuritySecretsFirst(fs, imagePath) ==
    LET Result(issues) ==
            [Issues |-> issues,
             TotalIssues |-> Len(issues),
             HighSeverity |-> CountSeverity(issues, "HIGH", 1),
             MediumSeverity |-> CountSeverity(issues, "MEDIUM", 1),
             LowSeverity |-> CountSeverity(issues, "LOW", 1)]
        Found(files, secrets, packages) ==
            IF files.err # "" THEN [info |-> <<>>, err |-> files.err]
            ELSE IF secrets.err # "" THEN [info |-> <<>>, err |-> secrets.err]
            ELSE IF packages.err # "" THEN [info |-> <<>>, err |-> packages.err]
            ELSE [info |-> <<Result(secrets.list \o files.list \o packages.list)>>,
                  err |-> ""]
        All(files, secrets) ==
            { Found(files, secrets, packages) :
                packages \in findVulnerablePackages(fs, imagePath) }
    IN  All(findSensitiveFiles(fs, imagePath), findHardcodedSecrets(fs, imagePath))

\* AnalyzeSecurity(imagePath): the results it may return, each the
\* SecurityResult (info holds it; nil is the empty sequence) and the error.
AnalyzeSecurity(fs, imagePath) ==
    LET Result(issues) ==
            [Issues |-> issues,
             TotalIssues |-> Len(issues),
             HighSeverity |-> CountSeverity(issues, "HIGH", 1),
             MediumSeverity |-> CountSeverity(issues, "MEDIUM", 1),
             LowSeverity |-> CountSeverity(issues, "LOW", 1)]
        Found(files, secrets, packages) ==
            IF files.err # "" THEN [info |-> <<>>, err |-> files.err]
            ELSE IF secrets.err # "" THEN [info |-> <<>>, err |-> secrets.err]
            ELSE IF packages.err # "" THEN [info |-> <<>>, err |-> packages.err]
            ELSE [info |-> <<Result(files.list \o secrets.list \o packages.list)>>,
                  err |-> ""]
        All(files, secrets) ==
            { Found(files, secrets, packages) :
                packages \in findVulnerablePackages(fs, imagePath) }
    IN  All(findSensitiveFiles(fs, imagePath), findHardcodedSecrets(fs, imagePath))

(***************************************************************************)
(* Section 9b: the recommendations of the report                           *)
(***************************************************************************)

\* The units of FormatSize: 1 << 10, 1 << 20 and 1 << 30.
KB == 1024
MB == 1048576
GB == 1073741824

\* rem * 100 as q * unit + r with r < unit, for rem < unit: what
\* float64(size) / unit holds behind the point, exactly (the units are
\* powers of two).  The product takes more than 31 bits for GB; it is
\* taken in two parts there.
Scaled(rem, unit) ==
    LET Direct(n) == [q |-> n \div unit, r |-> n % unit]
        Carried(q0, sum) ==
            IF sum >= unit THEN [q |-> q0 + 1, r |-> sum - unit]
            ELSE [q |-> q0, r |-> sum]
        Parts(t, b) == Carried(t \div MB, (t % MB) * KB + b * 100)
    IN  IF unit <= MB THEN Direct(rem * 100)
        ELSE Parts((rem \div KB) * 100, rem % KB)

\* fmt.Sprintf("%.2f", float64(size) / unit) as a number of hundredths:
\* rounded to the nearest, a half to the even one.
Hundredths(size, unit) ==
    LET Rounded(s) ==
            IF 2 * s.r > unit \/ (2 * s.r = unit /\ s.q % 2 = 1) THEN s.q + 1
            ELSE s.q
    IN  (size \div unit) * 100 + Rounded(Scaled(size % unit, unit))

\* FormatSize(size).  The sizes of the model are below 2^31: the TB case is
\* not taken.
FormatSize(size) ==
    LET Shown(h, unit) ==
            Itoa(h \div 100)
              \o <<".", Digits[((h \div 10) % 10) + 1], Digits[(h % 10) + 1], " ">>
              \o unit
    IN  IF size >= GB THEN Shown(Hundredths(size, GB), <<"G", "B">>)
        ELSE IF size >= MB THEN Shown(Hundredths(size, MB), <<"M", "B">>)
        ELSE IF size >= KB THEN Shown(Hundredths(size, KB), <<"K", "B">>)
        ELSE Shown(size * 100, <<"B">>)

\* A recommendation: the string fmt.Sprintf(format, args...) builds, kept as
\* the format and the arguments; a string literal has no arguments.
Sprintf(format, args) == [format |-> format, args |-> args]

sAddressHigh == "Address %d high severity security issues"
sReviewMedium == "Review %d medium severity security issues"
sRemoveSensitive == "Remove %d sensitive files from the image"
sRemoveSecrets == "Remove %d hardcoded secrets from the image"
sUpdatePackages == "Update %d vulnerable packages"
sReduceSize == "Consider reducing the image size"
sLargeFiles == "Remove or optimize large files (largest: %s, %s)"
sUnnecessary == "Remove unnecessary %s files (%s)"
sReduceLayers == "Reduce the number of layers in the image"
sNoRecommendations == "No specific recommendations at this time"

\* The thresholds of generateRecommendations: 500 MB, 100 MB and 10 MB in
\* bytes, and ten layers.
LargeImageSize == 524288000
LargeFileSize == 104857600
UnnecessarySize == 10485760
ManyLayers == 10

\* The unnecessaryExts of generateRecommendations.
unnecessaryExts ==
    <<<<".", "z", "i", "p">>,
      <<".", "t", "a", "r">>,
      <<".", "g", "z">>,
      <<".", "l", "o", "g">>,
      <<".", "t", "m", "p">>>>

\* The issues of the type among issues.
RECURSIVE CountType(_, _, _)
CountType(issues, type, i) ==
    IF i > Len(issues) THEN 0
    ELSE (IF issues[i].Type = type THEN 1 ELSE 0) + CountType(issues, type, i + 1)

\* UnnecessaryFrom with an entry for every bucket there is, whatever its
\* size.
RECURSIVE UnnecessaryFromAny(_, _)
UnnecessaryFromAny(breakdown, k) ==
    LET Ext_k(ext) ==
            IF ext \in DOMAIN breakdown
                THEN <<Sprintf(sUnnecessary, <<ext, FormatSize(breakdown[ext])>>)>>
            ELSE <<>>
    IN  IF k > Len(unnecessaryExts) THEN <<>>
        ELSE Ext_k(unnecessaryExts[k]) \o UnnecessaryFromAny(breakdown, k + 1)

\* The recommendations for the unnecessaryExts from the k-th on.
RECURSIVE UnnecessaryFrom(_, _)
UnnecessaryFrom(breakdown, k) ==
    LET Ext_k(ext) ==
            IF ext \in DOMAIN breakdown /\ breakdown[ext] > UnnecessarySize
                THEN <<Sprintf(sUnnecessary, <<ext, FormatSize(breakdown[ext])>>)>>
            ELSE <<>>
    IN  IF k > Len(unnecessaryExts) THEN <<>>
        ELSE Ext_k(unnecessaryExts[k]) \o UnnecessaryFrom(breakdown, k + 1)

\* The recommendations of generateRecommendations for the security
\* sub-report.
SecurityRecommendations(info) ==
    LET When(n, format) == IF n > 0 THEN <<Sprintf(format, <<n>>)>> ELSE <<>>
    IN  When(info.HighSeverity, sAddressHigh)
          \o When(info.MediumSeverity, sReviewMedium)
          \o When(CountType(info.Issues, "SENSITIVE_FILE", 1), sRemoveSensitive)
          \o When(CountType(info.Issues, "HARDCODED_SECRET", 1), sRemoveSecrets)
          \o When(CountType(info.Issues, "VULNERABLE_PACKAGE", 1), sUpdatePackages)

\* The recommendations of generateRecommendations for the size sub-report:
\* the large files and the unnecessary extensions are looked at for a large
\* image only.
SizeRecommendations(info) ==
    LET Largest(files) ==
            IF Len(files) > 0 /\ files[1].Size > LargeFileSize
                THEN <<Sprintf(sLargeFiles,
                               <<files[1].Path, FormatSize(files[1].Size)>>)>>
            ELSE <<>>
        Large ==
            IF info.TotalSize > LargeImageSize
                THEN <<Sprintf(sReduceSize, <<>>)>>
                       \o Largest(info.LargestFiles)
                       \o UnnecessaryFrom(info.FileTypeBreakdown, 1)
            ELSE <<>>
        Layers ==
            IF Len(info.LayerSizes) > ManyLayers
                THEN <<Sprintf(sReduceLayers, <<>>)>>
            ELSE <<>>
    IN  Large \o Layers

\* generateRecommendations with nothing appended to an empty list.
generateRecommendationsAsIs(result) ==
    (IF result.SecurityInfo # <<>>
        THEN SecurityRecommendations(result.SecurityInfo[1]) ELSE <<>>)
      \o (IF result.SizeInfo # <<>>
            THEN SizeRecommendations(result.SizeInfo[1]) ELSE <<>>)

\* generateRecommendations(result)
generateRecommendations(result) ==
    LET OrDefault(list) ==
            IF Len(list) = 0 THEN <<Sprintf(sNoRecommendations, <<>>)>>
            ELSE list
    IN  OrDefault((IF result.SecurityInfo # <<>>
                      THEN SecurityRecommendations(result.SecurityInfo[1])
                   ELSE <<>>)
                  \o (IF result.SizeInfo # <<>>
                        THEN SizeRecommendations(result.SizeInfo[1]) ELSE <<>>))

(***************************************************************************)
(* Section 10: the inputs                                                   *)
(***************************************************************************)

\* The entries an archive of the model may hold at most.
MaxEntries == 2

\* The temporary directory main creates (os.MkdirTemp).
TempDir == <<"/", "t", "/", "s">>

\* The temporary file extractFromDockerDaemon creates (os.CreateTemp).
TempTar == <<"/", "t", "/", "d", ".", "t", "a", "r">>

D1 == <<Data("1")>>
D12 == <<Data("1"), Data("2")>>
D3 == <<Data("3")>>

\* Layer archives: a well-formed layer; a layer with an entry that leaves
\* the layer's directory for a sibling whose name starts alike; one with an
\* entry that leaves it through ".."; one that is no tar file; one whose
\* entry passes through a symbolic link of the layer; one with two entries
\* of the same name, the second one shorter.
LayerGood == <<TarReg(<<"f">>, D12, TRUE, FALSE), TarDir(<<"e", "/">>)>>
LayerSibling ==
    <<TarReg(<<".", ".", "/">> \o sExtracted \o <<"x", "/", "f">>, D1, TRUE, FALSE)>>
LayerDotDot ==
    <<TarReg(<<"f">>, D1, TRUE, FALSE),
      TarReg(<<".", ".", "/", ".", ".", "/", "x">>, D1, TRUE, FALSE),
      TarReg(<<"g">>, D1, TRUE, FALSE)>>
LayerJunk == <<Data("0")>>
LayerLink ==
    <<TarSym(<<"l">>, <<"/", "w">>), TarReg(<<"l", "/", "f">>, D1, TRUE, FALSE)>>
LayerTwice ==
    <<TarReg(<<"d", "/", "f">>, D12, TRUE, FALSE),
      TarReg(<<"d", "/", "f">>, D3, TRUE, FALSE)>>

\* The entries of the outer tarballs.
OuterEntries ==
    { TarDir(<<"a", "/">>),
      TarReg(<<"a", "/">> \o sLayerTar, LayerGood, TRUE, FALSE),
      TarReg(<<"a", "/">> \o sLayerTar, LayerDotDot, TRUE, FALSE),
      TarReg(<<"a", "/">> \o sLayerTar, LayerJunk, TRUE, FALSE),
      TarReg(<<"a", "/">> \o sLayerTar, LayerSibling, TRUE, FALSE),
      TarReg(<<"a", "/">> \o sLayerTar, LayerLink, TRUE, FALSE),
      TarReg(<<"a", "/">> \o sLayerTar, LayerTwice, TRUE, FALSE),
      TarReg(<<"b", "/">> \o sLayerTar, LayerGood, TRUE, FALSE),
      TarReg(<<"a", "/", "b", "/">> \o sLayerTar, LayerGood, TRUE, FALSE),
      TarReg(sLayerTar, LayerGood, TRUE, FALSE),
      TarReg(<<".", ".", "/">> \o sImage \o <<"x", "/", "f">>, D1, TRUE, FALSE),
      TarReg(<<".", ".", "/", "x">>, D1, TRUE, FALSE),
      TarSym(<<"l">>, <<"/", "w">>),
      TarReg(<<"l", "/", "f">>, D1, TRUE, FALSE),
      TarOther(<<"h">>),
      TarReg(<<"a">>, D12, TRUE, FALSE),
      TarReg(<<"c">>, D12, TRUE, TRUE),
      Data("0") }

\* The sequences of at most n elements of S.
RECURSIVE SeqsUpTo(_, _)
SeqsUpTo(S, n) ==
    IF n = 0 THEN {<<>>}
    ELSE LET shorter == SeqsUpTo(S, n - 1)
         IN  shorter \cup { Append(q, e) : q \in shorter, e \in S }

\* The tarballs: of at most MaxEntries entries.
OuterArchives == SeqsUpTo(OuterEntries, MaxEntries)

\* The image references main is run with: a tar file and a gzipped tar file
\* given by their paths, a path that names nothing, a named image, and a tar
\* file of the working directory given by its bare name.
RefTar == <<"/", "w", "/", "i", ".", "t", "a", "r">>
RefTgz == <<"/", "w", "/", "i", ".", "t", "g", "z">>
RefMissing == <<"/", "w", "/", "n", "o">>
RefNamed == <<"n", ":", "1">>
RefBare == <<"n", "g", "i", "n", "x", ".", "t", "a", "r">>

\* The filesystem main starts in: the working directory and the temporary
\* directory.
BaseFs ==
    (Slash :> DirNode) @@ (<<"/", "w">> :> DirNode) @@
    (<<"/", "t">> :> DirNode) @@ (TempDir :> DirNode)

Refs == {RefTar, RefTgz, RefMissing, RefNamed, RefBare}

\* The tarballs a run with the reference ref is given.
ArchivesOf(ref) ==
    IF ref = RefTar THEN OuterArchives ELSE SeqsUpTo(OuterEntries, 1)

(***************************************************************************)
(* Section 11: the state                                                   *)
(***************************************************************************)

VARIABLES
    fs,             \* the filesystem
    images,         \* the images of the Docker daemon: name to tarball
    pc,             \* the statement main (or the caller) is at
    imagePath,      \* the image reference main is run with
    tempFile,       \* the temporary file of extractFromDockerDaemon
    tarPath,        \* the tarPath of extractFromTarFile
    imageDir,       \* the imageDir of extractFromTarFile
    rdFile,         \* the file the tar reader in use reads
    rdPos,          \* the block the tar reader in use is at
    layerDirs,      \* the layerDirs of extractLayers
    layerIdx,       \* the index of extractLayers' loop
    layersDone,     \* the layer tarballs ExtractTar has returned nil for
    extractedPath,  \* the path ExtractImage returned
    extractErr,     \* the error ExtractImage returned ("" is nil)
    verbose,        \* the verbose argument of the analyzers' caller
    dirInfo,        \* the *DirectoryInfo returned (<<>> is none or nil)
    dirErr,         \* the error AnalyzeDirectory returned
    sizeInfo,       \* the *SizeInfo returned
    sizeErr,        \* the error AnalyzeSize returned
    securityInfo,   \* the *SecurityResult returned
    securityErr,    \* the error AnalyzeSecurity returned
    result,         \* the *AnalysisResult of AnalyzeImage (<<>> is none)
    isName,         \* what IsDockerImageName returned (<<>> is none)
    topCount,       \* the count getLargestFiles and GetTopDirectories are given
    topFiles,       \* what getLargestFiles returned (<<>> is none)
    topDirs,        \* what GetTopDirectories returned (<<>> is none)
    firstResult,    \* the *AnalysisResult of an earlier AnalyzeImage
    recommendations, \* what generateRecommendations returned (<<>> is none)
    dirExists       \* how the call of DirExists ended (<<>> is none)

vars ==
    <<fs, images, pc, imagePath, tempFile, tarPath, imageDir, rdFile, rdPos,
      layerDirs, layerIdx, layersDone, extractedPath, extractErr, verbose,
      dirInfo, dirErr, sizeInfo, sizeErr, securityInfo, securityErr, result,
      isName, topCount, topFiles, topDirs, firstResult, recommendations,
      dirExists>>

extractVars ==
    <<tempFile, tarPath, imageDir, rdFile, rdPos, layerDirs, layerIdx,
      layersDone, extractedPath, extractErr>>

analyzeVars ==
    <<dirInfo, dirErr, sizeInfo, sizeErr, securityInfo, securityErr, result>>

callVars ==
    <<topCount, topFiles, topDirs, firstResult, recommendations, dirExists>>

\* Nothing extracted and nothing analyzed yet.
Fresh ==
    /\ tempFile = <<>> /\ tarPath = <<>> /\ imageDir = <<>>
    /\ rdFile = <<>> /\ rdPos = 0
    /\ layerDirs = <<>> /\ layerIdx = 0 /\ layersDone = <<>>
    /\ extractedPath = <<>> /\ extractErr = ""
    /\ dirInfo = <<>> /\ dirErr = "" /\ sizeInfo = <<>> /\ sizeErr = ""
    /\ securityInfo = <<>> /\ securityErr = ""
    /\ result = <<>> /\ isName = <<>>
    /\ topCount = 0 /\ topFiles = <<>> /\ topDirs = <<>> /\ firstResult = <<>>
    /\ recommendations = <<>> /\ dirExists = <<>>

\* main is run with a reference: a tar file, a gzipped tar file (gz: with
\* the gzip header), a name the daemon has an image for or not (has), a
\* file of the working directory given by its bare name.
Init ==
    \E ref \in Refs, gz \in BOOLEAN, has \in BOOLEAN :
      \E archive \in ArchivesOf(ref) :
        /\ gz \/ ref = RefTgz
        /\ ~has \/ ref \in {RefNamed, RefBare}
        /\ imagePath = ref
        /\ images = IF has THEN (ref :> archive) ELSE <<>>
        /\ fs = IF ref = RefTar THEN (RefTar :> FileNode(archive, TRUE)) @@ BaseFs
                ELSE IF ref = RefTgz
                    THEN (RefTgz :> FileNode(IF gz THEN <<GzMagic>> \o archive
                                             ELSE archive, TRUE)) @@ BaseFs
                ELSE IF ref = RefBare
                    THEN (Join(Cwd, RefBare) :> FileNode(archive, TRUE)) @@ BaseFs
                ELSE BaseFs
        /\ pc = "main"
        /\ verbose = TRUE
        /\ Fresh

(***************************************************************************)
(* Section 12: main, ExtractImage and AnalyzeImage, step by step           *)
(***************************************************************************)

\* A call of IsDockerImageName(imagePath) by itself.
CallIsDockerImageName ==
    /\ pc = "main"
    /\ isName = <<>>
    /\ isName' = <<IsDockerImageName(imagePath)>>
    /\ UNCHANGED <<fs, images, pc, imagePath, verbose>>
    /\ UNCHANGED extractVars
    /\ UNCHANGED analyzeVars
    /\ UNCHANGED callVars

\* main calls ExtractImage(imageName, tempDir), which takes the reference
\* for an image name or for the path of a tar file.
CallExtractImage ==
    /\ pc = "main"
    /\ IF IsDockerImageName(imagePath)
          THEN pc' = "daemon" /\ tarPath' = tarPath
       ELSE pc' = "tarfile" /\ tarPath' = imagePath
    /\ UNCHANGED <<fs, images, imagePath, verbose, isName>>
    /\ UNCHANGED <<tempFile, imageDir, rdFile, rdPos, layerDirs, layerIdx,
                   layersDone, extractedPath, extractErr>>
    /\ UNCHANGED analyzeVars
    /\ UNCHANGED callVars

\* ExtractImage returns path and err to main, from the filesystem f: the
\* removal of the temporary file deferred by extractFromDockerDaemon runs.
ReturnFrom(f, temp, path, err) ==
    /\ fs' = IF temp = <<>> THEN f ELSE Remove(f, temp)
    /\ extractedPath' = path
    /\ extractErr' = err
    /\ pc' = "returned"

\* extractFromDockerDaemon up to its call of extractFromTarFile: the
\* temporary file is created (or cannot be), and docker save writes the
\* image into it (or fails).
SaveImage ==
    /\ pc = "daemon"
    /\ \E created \in BOOLEAN :
         LET made == (TempTar :> FileNode(<<>>, TRUE)) @@ fs
         IN  IF ~created
                THEN /\ ReturnFrom(fs, <<>>, <<>>, "tempfile")
                     /\ UNCHANGED <<tempFile, tarPath>>
             ELSE IF imagePath \notin DOMAIN images
                THEN /\ ReturnFrom(made, TempTar, <<>>, "save")
                     /\ tempFile' = TempTar
                     /\ UNCHANGED tarPath
             ELSE /\ fs' = [made EXCEPT ![TempTar].data = images[imagePath]]
                  /\ tempFile' = TempTar
                  /\ tarPath' = TempTar
                  /\ pc' = "tarfile"
                  /\ UNCHANGED <<extractedPath, extractErr>>
    /\ UNCHANGED <<images, imagePath, verbose, isName>>
    /\ UNCHANGED <<imageDir, rdFile, rdPos, layerDirs, layerIdx, layersDone>>
    /\ UNCHANGED analyzeVars
    /\ UNCHANGED callVars

\* The file starts with the header of a gzip stream.
IsGzip(f, file) ==
    /\ f[file].kind = "file"
    /\ Len(f[file].data) >= 1
    /\ f[file].data[1] = GzMagic

\* extractFromTarFile up to its loop: the tar file is opened, the image
\* directory created, the gzip reader set up for a name in .gz or .tgz.
OpenTar ==
    /\ pc = "tarfile"
    /\ LET Opened(o, m, dir, gzip) ==
               IF o.err # ""
                  THEN /\ ReturnFrom(fs, tempFile, <<>>, "open")
                       /\ UNCHANGED <<imageDir, rdFile, rdPos>>
               ELSE IF m.err # ""
                  THEN /\ ReturnFrom(m.fs, tempFile, <<>>, "mkdir")
                       /\ imageDir' = dir
                       /\ UNCHANGED <<rdFile, rdPos>>
               ELSE IF gzip /\ ~IsGzip(m.fs, o.file)
                  THEN /\ ReturnFrom(m.fs, tempFile, <<>>, "gzip")
                       /\ imageDir' = dir
                       /\ UNCHANGED <<rdFile, rdPos>>
               ELSE /\ fs' = m.fs
                    /\ imageDir' = dir
                    /\ rdFile' = o.file
                    /\ rdPos' = IF gzip THEN 2 ELSE 1
                    /\ pc' = "outer"
                    /\ UNCHANGED <<extractedPath, extractErr>>
           In(dir) ==
               Opened(Open(fs, tarPath), MkdirAll(fs, dir), dir,
                      HasSuffix(tarPath, sGz) \/ HasSuffix(tarPath, sTgz))
       IN  In(Join(TempDir, sImage))
    /\ UNCHANGED <<images, imagePath, verbose, isName>>
    /\ UNCHANGED <<tempFile, tarPath, layerDirs, layerIdx, layersDone>>
    /\ UNCHANGED analyzeVars
    /\ UNCHANGED callVars

\* One turn of extractFromTarFile's loop over the outer tarball.
OuterNext ==
    /\ pc = "outer"
    /\ LET Turn(s) ==
               IF s.res = "EOF"
                  THEN /\ pc' = "glob"
                       /\ UNCHANGED <<fs, rdPos, extractedPath, extractErr>>
               ELSE IF s.res = "return"
                  THEN /\ ReturnFrom(s.fs, tempFile, <<>>, s.err)
                       /\ UNCHANGED rdPos
               ELSE /\ fs' = s.fs
                    /\ rdPos' = rdPos + 1
                    /\ UNCHANGED <<pc, extractedPath, extractErr>>
       IN  Turn(ExtractImageStep(fs, rdFile, rdPos, imageDir))
    /\ UNCHANGED <<images, imagePath, verbose, isName>>
    /\ UNCHANGED <<tempFile, tarPath, imageDir, rdFile, layerDirs, layerIdx,
                   layersDone>>
    /\ UNCHANGED analyzeVars
    /\ UNCHANGED callVars

\* extractLayers looks for the layer tarballs.
GlobLayers ==
    /\ pc = "glob"
    /\ layerDirs' = FindLayers(fs, imageDir)
    /\ layerIdx' = 1
    /\ pc' = "layers"
    /\ UNCHANGED <<fs, images, imagePath, verbose, isName>>
    /\ UNCHANGED <<tempFile, tarPath, imageDir, rdFile, rdPos, layersDone,
                   extractedPath, extractErr>>
    /\ UNCHANGED analyzeVars
    /\ UNCHANGED callVars

\* extractLayers takes the next layer tarball, creates its directory and
\* ExtractTar opens it; after the last one extractFromTarFile returns the
\* image directory.
LayerOpen ==
    /\ pc = "layers"
    /\ LET Opened(m, o) ==
               IF m.err # ""
                  THEN /\ ReturnFrom(m.fs, tempFile, <<>>, "layer-mkdir")
                       /\ UNCHANGED <<rdFile, rdPos>>
               ELSE IF o.err # ""
                  THEN /\ ReturnFrom(m.fs, tempFile, <<>>, LayerErr("open"))
                       /\ UNCHANGED <<rdFile, rdPos>>
               ELSE /\ fs' = m.fs
                    /\ rdFile' = o.file
                    /\ rdPos' = 1
                    /\ pc' = "layer"
                    /\ UNCHANGED <<extractedPath, extractErr>>
           Made(m, layerPath) == Opened(m, Open(m.fs, layerPath))
           Layer(layerPath) ==
               Made(MkdirAll(fs, ExtractedDir(layerPath)), layerPath)
       IN  IF layerIdx > Len(layerDirs)
              THEN /\ ReturnFrom(fs, tempFile, imageDir, "")
                   /\ UNCHANGED <<rdFile, rdPos>>
           ELSE Layer(layerDirs[layerIdx])
    /\ UNCHANGED <<images, imagePath, verbose, isName>>
    /\ UNCHANGED <<tempFile, tarPath, imageDir, layerDirs, layerIdx, layersDone>>
    /\ UNCHANGED analyzeVars
    /\ UNCHANGED callVars

\* One turn of ExtractTar's loop over a layer tarball.
LayerNext ==
    /\ pc = "layer"
    /\ LET Turn(s, layerPath) ==
               IF s.res = "EOF"
                  THEN /\ layersDone' = Append(layersDone, layerPath)
                       /\ layerIdx' = layerIdx + 1
                       /\ pc' = "layers"
                       /\ UNCHANGED <<fs, rdPos, extractedPath, extractErr>>
               ELSE IF s.res = "return"
                  THEN /\ ReturnFrom(s.fs, tempFile, <<>>, LayerErr(s.err))
                       /\ UNCHANGED <<rdPos, layerIdx, layersDone>>
               ELSE /\ fs' = s.fs
                    /\ rdPos' = rdPos + 1
                    /\ UNCHANGED <<pc, layerIdx, layersDone, extractedPath,
                                   extractErr>>
           Layer(layerPath) ==
               Turn(ExtractTarStep(fs, rdFile, rdPos, ExtractedDir(layerPath)),
                    layerPath)
       IN  Layer(layerDirs[layerIdx])
    /\ UNCHANGED <<images, imagePath, verbose, isName>>
    /\ UNCHANGED <<tempFile, tarPath, imageDir, rdFile, layerDirs>>
    /\ UNCHANGED analyzeVars
    /\ UNCHANGED callVars

\* ExtractFailed with the error ignored.
ExtractFailedNever(err) == FALSE

\* main's test of the error ExtractImage returned.
ExtractFailed(err) == err # ""

\* main after ExtractImage: os.Exit(1) on an error (no deferred call runs),
\* AnalyzeImage otherwise.
MainCheck ==
    /\ pc = "returned"
    /\ pc' = IF ExtractFailed(extractErr) THEN "exit1" ELSE "analyzeDir"
    /\ UNCHANGED <<fs, images, imagePath, verbose, isName>>
    /\ UNCHANGED extractVars
    /\ UNCHANGED analyzeVars
    /\ UNCHANGED callVars

\* AnalyzeImage: the result it starts from, and AnalyzeDirectory.
CallAnalyzeDirectory ==
    /\ pc = "analyzeDir"
    /\ LET Returned(r) ==
               /\ dirInfo' = <<r.info>>
               /\ dirErr' = r.err
               /\ result' = <<[ImagePath |-> extractedPath,
                               DirectoryInfo |-> IF r.err # "" THEN <<>>
                                                 ELSE <<r.info>>,
                               SecurityInfo |-> <<>>,
                               SizeInfo |-> <<>>]>>
       IN  Returned(AnalyzeDirectory(fs, extractedPath, verbose))
    /\ pc' = "analyzeSecurity"
    /\ UNCHANGED <<fs, images, imagePath, verbose, isName, sizeInfo, sizeErr,
                   securityInfo, securityErr>>
    /\ UNCHANGED extractVars
    /\ UNCHANGED callVars

\* CallAnalyzeSecurity with the files opened by os.Create in place of
\* os.Open: every regular file is left empty.
CallAnalyzeSecurityTruncating ==
    /\ pc = "analyzeSecurity"
    /\ \E r \in AnalyzeSecurity(fs, extractedPath) :
         /\ securityInfo' = r.info
         /\ securityErr' = r.err
         /\ result' = <<[result[1] EXCEPT
                           !.SecurityInfo = IF r.err # "" THEN <<>> ELSE r.info]>>
    /\ fs' = [p \in DOMAIN fs |->
                IF fs[p].kind = "file" THEN [fs[p] EXCEPT !.data = <<>>] ELSE fs[p]]
    /\ pc' = "analyzeSize"
    /\ UNCHANGED <<images, imagePath, verbose, isName, dirInfo, dirErr,
                   sizeInfo, sizeErr>>
    /\ UNCHANGED extractVars
    /\ UNCHANGED callVars

\* AnalyzeImage: AnalyzeSecurity.
CallAnalyzeSecurity ==
    /\ pc = "analyzeSecurity"
    /\ \E r \in AnalyzeSecurity(fs, extractedPath) :
         /\ securityInfo' = r.info
         /\ securityErr' = r.err
         /\ result' = <<[result[1] EXCEPT
                           !.SecurityInfo = IF r.err # "" THEN <<>> ELSE r.info]>>
    /\ pc' = "analyzeSize"
    /\ UNCHANGED <<fs, images, imagePath, verbose, isName, dirInfo, dirErr,
                   sizeInfo, sizeErr>>
    /\ UNCHANGED extractVars
    /\ UNCHANGED callVars

\* CallAnalyzeSize with AnalyzeSize not called after a failed
\* AnalyzeSecurity.
CallAnalyzeSizeUnlessFailed ==
    /\ pc = "analyzeSize"
    /\ IF securityErr # "" THEN UNCHANGED <<sizeInfo, sizeErr, result>>
       ELSE \E r \in AnalyzeSize(fs, extractedPath) :
              /\ sizeInfo' = r.info
              /\ sizeErr' = r.err
              /\ result' = <<[result[1] EXCEPT
                                !.SizeInfo = IF r.err # "" THEN <<>> ELSE r.info]>>
    /\ pc' = "output"
    /\ UNCHANGED <<fs, images, imagePath, verbose, isName, dirInfo, dirErr,
                   securityInfo, securityErr>>
    /\ UNCHANGED extractVars
    /\ UNCHANGED callVars

\* AnalyzeImage: AnalyzeSize.
CallAnalyzeSize ==
    /\ pc = "analyzeSize"
    /\ \E r \in AnalyzeSize(fs, extractedPath) :
         /\ sizeInfo' = r.info
         /\ sizeErr' = r.err
         /\ result' = <<[result[1] EXCEPT
                           !.SizeInfo = IF r.err # "" THEN <<>> ELSE r.info]>>
    /\ pc' = "output"
    /\ UNCHANGED <<fs, images, imagePath, verbose, isName, dirInfo, dirErr,
                   securityInfo, securityErr>>
    /\ UNCHANGED extractVars
    /\ UNCHANGED callVars

\* main prints the result, the recommendations of generateRecommendations
\* last, and returns: the deferred os.RemoveAll(tempDir) runs.
Output ==
    /\ pc = "output"
    /\ recommendations' = <<generateRecommendations(result[1])>>
    /\ fs' = RemoveAll(fs, TempDir)
    /\ pc' = "done"
    /\ UNCHANGED <<images, imagePath, verbose, isName>>
    /\ UNCHANGED extractVars
    /\ UNCHANGED analyzeVars
    /\ UNCHANGED <<topCount, topFiles, topDirs, firstResult, dirExists>>

Next ==
    \/ CallExtractImage
    \/ SaveImage
    \/ OpenTar
    \/ OuterNext
    \/ GlobLayers
    \/ LayerOpen
    \/ LayerNext
    \/ MainCheck
    \/ CallAnalyzeDirectory
    \/ CallAnalyzeSecurity
    \/ CallAnalyzeSize
    \/ Output

Spec == Init /\ [][Next]_vars
(***************************************************************************)
(* Section 13: the properties                                              *)
(***************************************************************************)

\* target is dir itself or lies below it.
Within(target, dir) == target = dir \/ HasPrefix(target, dir \o Slash)

\* The filesystem f after the calls ExtractImage has deferred.
AfterDefers(f) == IF tempFile = <<>> THEN f ELSE Remove(f, tempFile)

\* ExtractImage has returned to main.
Returned ==
    pc \in {"returned", "exit1", "analyzeDir", "analyzeSecurity", "analyzeSize",
            "output", "done"}

\* ExtractImage took the reference for a named image: it went to the daemon.
ViaDaemon == pc = "daemon" \/ tempFile # <<>> \/ extractErr = "tempfile"

\* ExtractImage took the reference for the path of a tar file.
ViaTarFile == pc # "main" /\ ~ViaDaemon /\ tarPath = imagePath

\* The tar reader in use is at the header of an entry that leaves dest.
EscapingEntry(dest) ==
    LET On(n) == n.res = "header" /\ ~Within(Join(dest, n.header.name), dest)
    IN  On(TarNext(fs, rdFile, rdPos))

\* C1: an entry whose name, joined to the destination, gives a path that is
\* neither the destination nor below it makes the extraction (of the outer
\* tarball and of a layer) return a path-traversal error, and nothing has
\* been created or written for the entry.
C1_EscapingEntryRejected ==
    [][/\ (pc = "outer" /\ EscapingEntry(imageDir))
            => (extractErr' = "traversal" /\ fs' = AfterDefers(fs))
       /\ (pc = "layer" /\ EscapingEntry(ExtractedDir(layerDirs[layerIdx])))
            => (extractErr' = LayerErr("traversal") /\ fs' = AfterDefers(fs))]_vars

\* C4: a reference that names an existing tar file of the working directory
\* by its bare name is extracted as a tar file, never sent to the daemon.
C4_BareFileIsTarFile ==
    (imagePath = RefBare /\ StatOk(fs, Join(Cwd, RefBare)) /\ pc # "main")
        => (ViaTarFile /\ ~ViaDaemon)

\* The step the extraction is about to take fails: docker save has no such
\* image, the tar file cannot be opened or is no gzip stream, a tarball
\* cannot be read further, or an entry cannot be extracted.
StepFails ==
    \/ pc = "daemon" /\ imagePath \notin DOMAIN images
    \/ pc = "tarfile" /\ Open(fs, tarPath).err # ""
    \/ /\ pc = "tarfile"
       /\ Open(fs, tarPath).err = ""
       /\ HasSuffix(tarPath, sGz) \/ HasSuffix(tarPath, sTgz)
       /\ ~IsGzip(fs, Open(fs, tarPath).file)
    \/ pc = "outer" /\ TarNext(fs, rdFile, rdPos).res = "error"
    \/ /\ pc = "outer"
       /\ TarNext(fs, rdFile, rdPos).res = "header"
       /\ ExtractImageEntry(fs, imageDir, TarNext(fs, rdFile, rdPos).header).err # ""
    \/ /\ pc = "layers"
       /\ layerIdx <= Len(layerDirs)
       /\ Open(fs, layerDirs[layerIdx]).err # ""
    \/ pc = "layer" /\ TarNext(fs, rdFile, rdPos).res = "error"
    \/ /\ pc = "layer"
       /\ TarNext(fs, rdFile, rdPos).res = "header"
       /\ ExtractTarEntry(fs, ExtractedDir(layerDirs[layerIdx]),
                          TarNext(fs, rdFile, rdPos).header).err # ""

\* What ExtractImage has returned: an error with the empty path or no error
\* with the image directory, the latter with every layer found extracted;
\* after an error no layer behind the failing one has a directory.
C5_Result ==
    Returned =>
        /\ extractErr # "" <=> extractedPath = <<>>
        /\ extractedPath # <<>> =>
              (extractedPath = imageDir /\ layersDone = layerDirs)
        /\ (extractErr # "" /\ pc # "done") =>
              /\ Len(layersDone) < Len(layerDirs) \/ layerDirs = <<>>
              /\ \A j \in (Len(layersDone) + 2)..Len(layerDirs) :
                    ~StatOk(fs, ExtractedDir(layerDirs[j]))

\* A failing step makes ExtractImage return the error and the empty path;
\* a path is returned only by the step behind the last layer; nothing is
\* extracted any more once an error is returned.
C5_Step ==
    /\ StepFails => (pc' = "returned" /\ extractErr' # "" /\ extractedPath' = <<>>)
    /\ (extractedPath = <<>> /\ extractedPath' # <<>>) =>
          /\ pc = "layers"
          /\ layerIdx > Len(layerDirs)
          /\ layersDone = layerDirs
          /\ extractErr' = ""
    /\ extractErr # "" => (layersDone' = layersDone /\ fs' = fs)

\* C5: ExtractImage returns an error and the empty path whenever the image
\* cannot be saved, the outer tarball cannot be opened, read or extracted,
\* or a layer cannot be extracted; no layer behind the first failing one is
\* extracted; a path is returned only when all was extracted without error.
C5_FailureIsFatal == []C5_Result /\ [][C5_Step]_vars

\* A layer failed first, with a layer left behind it that was not extracted.
C5_Witness ==
    /\ pc = "returned"
    /\ extractErr = LayerErr("traversal")
    /\ extractedPath = <<>>
    /\ layersDone = <<>>
    /\ Len(layerDirs) = 2
    /\ ~StatOk(fs, ExtractedDir(layerDirs[2]))
\* The files named layer.tar exactly one directory below imageDir.
LayersOneBelow ==
    { Join(Child(imageDir, n), sLayerTar) :
        n \in { d \in DirNames(fs, imageDir) :
                  /\ StatIsDir(fs, Child(imageDir, d))
                  /\ StatOk(fs, Join(Child(imageDir, d), sLayerTar)) } }

\* The files named layer.tar anywhere in or below imageDir.
LayersAnywhere ==
    { p \in DOMAIN fs : HasPrefix(p, imageDir \o Slash) /\ Base(p) = sLayerTar }

\* Every entry of the layer tarball at layerPath that is a directory or a
\* regular file is there under the layer's directory extracted/.
LayerExtracted(layerPath) ==
    /\ StatIsDir(fs, ExtractedDir(layerPath))
    /\ \A k \in DOMAIN fs[layerPath].data :
          fs[layerPath].data[k].typeflag \in {"dir", "reg"} =>
              StatOk(fs, Join(ExtractedDir(layerPath), fs[layerPath].data[k].name))

\* No layer is touched before the outer tarball is extracted; after a
\* successful ExtractImage the layers extracted are the files layer.tar
\* one directory below the image directory, each into its extracted/, and
\* no other layer.tar has a directory extracted/.
C6_Layers ==
    /\ pc \in {"main", "daemon", "tarfile", "outer", "glob"} =>
          /\ layersDone = <<>>
          /\ \A p \in DOMAIN fs : Base(p) # sExtracted
    /\ (Returned /\ extractErr = "" /\ pc # "done") =>
          /\ { layersDone[k] : k \in DOMAIN layersDone } = LayersOneBelow
          /\ Len(layersDone) = Cardinality(LayersOneBelow)
          /\ \A p \in LayersOneBelow : LayerExtracted(p)
          /\ \A p \in LayersAnywhere \ LayersOneBelow :
                ~StatOk(fs, ExtractedDir(p))

\* The search for layers starts when the outer tarball is at its end, and a
\* layer is opened only after the search; the search finds the files
\* layer.tar one directory below; with none found ExtractImage returns the
\* image directory and no error.
C6_Step ==
    /\ pc' = "glob" => (pc = "outer" /\ TarNext(fs, rdFile, rdPos).res = "EOF")
    /\ (pc' \in {"layers", "layer"} /\ pc \notin {"layers", "layer"}) => pc = "glob"
    /\ pc = "glob" =>
          /\ { layerDirs'[k] : k \in DOMAIN layerDirs' } = LayersOneBelow
          /\ Len(layerDirs') = Cardinality(LayersOneBelow)
    /\ (pc = "layers" /\ layerDirs = <<>>) =>
          (pc' = "returned" /\ extractErr' = "" /\ extractedPath' = imageDir)

\* C6: layers are extracted only after the outer tarball, and exactly the
\* files <imageRoot>/<dir>/layer.tar are, each into <dir>/extracted/; a
\* layer.tar at another depth is not extracted; with no such file there are
\* zero layers and ExtractImage succeeds.
C6_LayersOneLevelBelow == []C6_Layers /\ [][C6_Step]_vars

\* ExtractImage succeeded with one layer extracted and a layer.tar at
\* another depth left alone.
C6_Witness ==
    /\ pc = "returned"
    /\ extractErr = ""
    /\ Len(layersDone) = 1
    /\ LayersAnywhere \ LayersOneBelow # {}

\* An analyzer has been called.
Analyzing ==
    \/ pc \in {"analyzeDir", "analyzeSecurity", "analyzeSize", "output", "done"}
    \/ dirInfo # <<>>
    \/ securityInfo # <<>>
    \/ sizeInfo # <<>>
    \/ result # <<>>

\* An analyzer is called only with the path of a successful ExtractImage,
\* all layers extracted; after a failed one main is at os.Exit(1).
C7_Order ==
    /\ Analyzing =>
          /\ extractErr = ""
          /\ extractedPath = imageDir
          /\ extractedPath # <<>>
          /\ layersDone = layerDirs
    /\ (Returned /\ extractErr # "") => (~Analyzing /\ pc \in {"returned", "exit1"})

\* main goes from a failed ExtractImage to os.Exit(1), and stays there.
C7_Step ==
    /\ (pc = "returned" /\ extractErr # "") => pc' = "exit1"
    /\ pc = "exit1" => pc' = "exit1"
    /\ pc' = "analyzeDir" => (pc = "returned" /\ extractErr = "")

\* C7: no analyzer reads the tree before ExtractImage has returned without
\* error, the outer tarball and all layers extracted; when ExtractImage
\* fails no analyzer runs and main ends with the failure.
C7_AnalyzeAfterExtract == []C7_Order /\ [][C7_Step]_vars

\* The analyzers have run on a tree with an extracted layer.
C7_Witness ==
    /\ pc = "output"
    /\ result # <<>>
    /\ layersDone # <<>>
    /\ extractedPath = imageDir
(***************************************************************************)
(* Section 14: the classification of references                            *)
(***************************************************************************)

\* The longest reference made of RefChars.
MaxRefLen == 3

\* The characters the references are made of: the two the classification
\* looks for and two it does not.
RefChars == {"/", ":", "a", "."}

\* The table of TestIsDockerImageName: name to expected.
TestTable ==
    (<<"n", "g", "i", "n", "x">> :> TRUE) @@
    (<<"n", "g", "i", "n", "x", ":", "l", "a", "t", "e", "s", "t">> :> TRUE) @@
    (<<"d", "o", "c", "k", "e", "r", ".", "i", "o", "/", "l", "i", "b", "r", "a", "r", "y", "/", "n", "g", "i", "n", "x">> :> TRUE) @@
    (<<"d", "o", "c", "k", "e", "r", ".", "i", "o", "/", "l", "i", "b", "r", "a", "r", "y", "/", "n", "g", "i", "n", "x", ":", "l", "a", "t", "e", "s", "t">> :> TRUE) @@
    (<<"r", "e", "g", "i", "s", "t", "r", "y", ".", "e", "x", "a", "m", "p", "l", "e", ".", "c", "o", "m", "/", "m", "y", "a", "p", "p", ":", "v", "1", ".", "0", ".", "0">> :> TRUE) @@
    (<<"u", "s", "e", "r", "/", "r", "e", "p", "o", ":", "t", "a", "g">> :> TRUE) @@
    (<<"/", "p", "a", "t", "h", "/", "t", "o", "/", "i", "m", "a", "g", "e", ".", "t", "a", "r">> :> FALSE) @@
    (<<".", "/", "i", "m", "a", "g", "e", ".", "t", "a", "r">> :> FALSE) @@
    (<<>> :> FALSE)

\* A tarball with one layer.
ImageArchive ==
    <<TarDir(<<"a", "/">>), TarReg(<<"a", "/">> \o sLayerTar, LayerGood, TRUE, FALSE)>>

\* The references: every string of at most MaxRefLen characters and the
\* names of the test table.
ClassifyRefs == SeqsUpTo(RefChars, MaxRefLen) \cup DOMAIN TestTable

\* main is run with any reference; the working directory holds the tarball
\* a, and the daemon has the image a.
InitClassify ==
    \E ref \in ClassifyRefs :
        /\ imagePath = ref
        /\ images = (<<"a">> :> ImageArchive)
        /\ fs = (Child(Cwd, <<"a">>) :> FileNode(ImageArchive, TRUE)) @@ BaseFs
        /\ pc = "main"
        /\ verbose = TRUE
        /\ Fresh

NextClassify == CallIsDockerImageName \/ Next

SpecClassify == InitClassify /\ [][NextClassify]_vars

\* The rule of C2, character by character.
NamedRule(ref) ==
    \/ \A i \in DOMAIN ref : ref[i] # "/"
    \/ \E i \in DOMAIN ref : ref[i] = ":"

C3_AsTheTestExpects ==
    (isName # <<>> /\ imagePath \in DOMAIN TestTable) =>
        isName[1] = TestTable[imagePath]
(***************************************************************************)
(* Section 15: the analyzers on any tree                                   *)
(***************************************************************************)

\* The largest size of the files whose size varies.
MaxFileSize == 2

\* The root of the trees the analyzers are called with.
TreeRoot == <<"/", "r">>

\* A file of n blocks.
Sized(n) == FileNode([i \in 1..n |-> Data("1")], TRUE)

\* The entry at a path below the root, when there is one.
Entry(present, rel, node) ==
    IF present THEN (Join(TreeRoot, rel) :> node) ELSE <<>>

\* A directory that cannot be listed.
Unreadable == [DirNode EXCEPT !.perm = FALSE]

\* The sizes of the thirteen files of the directory w: two pairs of files
\* are of one size.
WideSizes == <<1, 2, 3, 4, 5, 6, 7, 8, 9, 10, 11, 11, 3>>

WideNames == <<"0", "1", "2", "3", "4", "5", "6", "7", "8", "9", "a", "b", "c">>

\* The directory w: thirteen files and five directories.
RECURSIVE WideFiles(_)
WideFiles(i) ==
    IF i = 0 THEN <<>>
    ELSE (Join(TreeRoot, <<"w", "/", WideNames[i]>>) :> Sized(WideSizes[i]))
         @@ WideFiles(i - 1)

Wide ==
    (Join(TreeRoot, <<"w">>) :> DirNode) @@
    (Join(TreeRoot, <<"w", "/", "p">>) :> DirNode) @@
    (Join(TreeRoot, <<"w", "/", "q">>) :> DirNode) @@
    (Join(TreeRoot, <<"w", "/", "r">>) :> DirNode) @@
    (Join(TreeRoot, <<"w", "/", "s">>) :> DirNode) @@
    (Join(TreeRoot, <<"w", "/", "u">>) :> DirNode) @@
    WideFiles(Len(WideNames))

\* A tree: the directory a with the files a/b and a/B.T, the files a.t and
\* n, the layers k and m, a directory z that cannot be listed, a symbolic
\* link l to a, the file .env, the directory w.  A size of 0 says the file
\* is not there.
Tree(hasA, hasB, hasBT, hasAt, sizeN, sizeK, sizeM, hasZ, hasL, hasEnv, hasW) ==
    (Slash :> DirNode) @@ (TreeRoot :> DirNode) @@
    Entry(hasA, <<"a">>, DirNode) @@
    Entry(hasA /\ hasB, <<"a", "/", "b">>, Sized(1)) @@
    Entry(hasA /\ hasBT, <<"a", "/", "B", ".", "T">>, Sized(1)) @@
    Entry(hasAt, <<"a", ".", "t">>, Sized(1)) @@
    Entry(sizeN > 0, <<"n">>, Sized(sizeN)) @@
    Entry(sizeK > 0, <<"k">>, DirNode) @@
    Entry(sizeK > 0, <<"k", "/">> \o sLayerTar, Sized(sizeK)) @@
    Entry(sizeM > 0, <<"m">>, DirNode) @@
    Entry(sizeM > 0, <<"m", "/">> \o sLayerTar, Sized(sizeM)) @@
    Entry(hasZ, <<"z">>, Unreadable) @@
    Entry(hasL, <<"l">>, LinkNode(<<"a">>)) @@
    Entry(hasEnv, <<".", "e", "n", "v">>, Sized(1)) @@
    (IF hasW THEN Wide ELSE <<>>)

\* The caller is at the statement at with the root of a tree: the directory
\* w is in a tree with the file n at most.
TreeAt(at) ==
    \E hasA, hasB, hasBT, hasAt, hasZ, hasL, hasEnv, hasW, v \in BOOLEAN :
      \E sizeN, sizeK, sizeM \in 0..MaxFileSize :
        /\ hasW => (~hasA /\ ~hasBT /\ ~hasAt /\ ~hasZ /\ ~hasL /\ ~hasEnv
                        /\ ~hasB /\ sizeK = 0 /\ sizeM = 0)
        /\ hasBT => hasA
        /\ hasB => hasA
        /\ fs = Tree(hasA, hasB, hasBT, hasAt, sizeN, sizeK, sizeM, hasZ, hasL,
                     hasEnv, hasW)
        /\ images = <<>>
        /\ imagePath = TreeRoot
        /\ pc = at
        /\ verbose = v
        /\ tempFile = <<>> /\ tarPath = <<>> /\ imageDir = <<>>
        /\ rdFile = <<>> /\ rdPos = 0
        /\ layerDirs = <<>> /\ layerIdx = 0 /\ layersDone = <<>>
        /\ extractedPath = TreeRoot /\ extractErr = ""
        /\ dirInfo = <<>> /\ dirErr = "" /\ sizeInfo = <<>> /\ sizeErr = ""
        /\ securityInfo = <<>> /\ securityErr = ""
        /\ result = <<>> /\ isName = <<>>
        /\ topCount = 0 /\ topFiles = <<>> /\ topDirs = <<>>
        /\ firstResult = <<>>
        /\ recommendations = <<>> /\ dirExists = <<>>

\* AnalyzeImage is called with the root of a tree.
InitTree == TreeAt("analyzeDir")

NextTree == CallAnalyzeDirectory \/ CallAnalyzeSecurity \/ CallAnalyzeSize

SpecTree == InitTree /\ [][NextTree]_vars

(***************************************************************************)
(* Section 15a: the analyzers on trees of text files                       *)
(***************************************************************************)

sSecretLine == <<"c", "o", "n", "s", "t", " ", "p", "a", "s", "s", "w", "o", "r", "d", " ", "=", " ", "'", "s", "u", "p", "e", "r", "s", "e", "c", "r", "e", "t", "p", "w", "'", ";">>

sTwoSecrets == <<"t", "o", "k", "e", "n", " ", "=", " ", "\"", "a", "b", "c", "d", "e", "f", "g", "h", "\"", ";", " ", "P", "a", "s", "s", "_", "W", "o", "r", "d", " ", "=", " ", "\"", "x", "\"", ";", " ", "P", "A", "S", "S", "W", "D", "	", "=", "	", "\"", "a", "b", "c", "d", "e", "f", "g", "h", "\"">>

sShortSecret == <<"p", "a", "s", "s", "w", "o", "r", "d", " ", "=", " ", "'", "s", "h", "o", "r", "t", "'">>

sAwsSecret == <<"a", "w", "s", "_", "s", "e", "c", "r", "e", "t", "-", "a", "c", "c", "e", "s", "s", "_", "k", "e", "y", "=", "'", "a", "b", "c", "d", "e", "f", "g", "h", "i", "j", "k", "l", "m", "n", "o", "p", "'">>

sPlainLine == <<"x", " ", "=", " ", "1">>

sShortAwsId == <<"a", "w", "s", "_", "a", "c", "c", "e", "s", "s", "_", "k", "e", "y", "_", "i", "d", " ", "=", " ", "'", "A", "K", "I", "A", "1", "2", "3", "4", "'">>

sShortAwsSecret == <<"a", "w", "s", "_", "s", "e", "c", "r", "e", "t", "_", "a", "c", "c", "e", "s", "s", "_", "k", "e", "y", " ", "=", " ", "'", "a", "b", "c", "d", "e", "f", "g", "h", "i", "j", "'">>

\* What the file config.js may hold.
ScanContents ==
    <<<<Line(sSecretLine)>>,
      <<Line(sPlainLine), Line(sSecretLine), Line(sTwoSecrets)>>,
      <<Line(sShortSecret), Line(sAwsSecret)>>,
      <<Line(sSecretLine), LongLine, Line(sSecretLine)>>,
      <<Data("1")>>,
      <<Line(sShortAwsId), Line(sShortAwsSecret)>>>>

sLodash == <<"l", "o", "d", "a", "s", "h">>

sAxios == <<"a", "x", "i", "o", "s">>

sMinimist == <<"m", "i", "n", "i", "m", "i", "s", "t">>

sLeftPad == <<"l", "e", "f", "t", "-", "p", "a", "d">>

\* What the file a/package.json may hold.
PackageContents ==
    <<<<Json(<<<<sLodash, <<"4", ".", "1", "7", ".", "2", "0">>>>>>, <<>>)>>,
      <<Json(<<<<sLodash, <<"4", ".", "1", "7", ".", "2", "1">>>>>>, <<>>)>>,
      <<Json(<<<<sLodash, <<"^", "4", ".", "1", "7", ".", "2", "0">>>>, <<sAxios, <<"0", ".", "2", "1", ".", "0">>>>>>,
             <<<<sMinimist, <<"~", "1", ".", "2", ".", "5">>>>>>)>>,
      <<Json(<<<<sLeftPad, <<"1", ".", "0", ".", "0">>>>, <<sLodash, <<"5", ".", "0", ".", "0">>>>>>, <<>>)>>,
      <<Line(<<"{">>)>>>>

\* What the file requirements.txt may hold.
RequirementContents ==
    <<<<Line(<<"#", " ", "d", "j", "a", "n", "g", "o", "=", "=", "1", ".", "0">>),
        Line(<<"d", "j", "a", "n", "g", "o", "=", "=", "3", ".", "2", ".", "0">>),
        Line(<<" ", "f", "l", "a", "s", "k", " ", "=", "=", " ", "2", ".", "0", ".", "0", " ">>)>>,
      <<Line(<<"d", "j", "a", "n", "g", "o", "=", "=", "3", ".", "2", ".", "1", "4">>)>>,
      <<Line(<<"D", "j", "a", "n", "g", "o", "=", "=", "1", ".", "0">>),
        Line(<<"d", "j", "a", "n", "g", "o", ">", "=", "1", ".", "0">>),
        Line(<<>>)>>,
      <<Line(<<"d", "j", "a", "n", "g", "o", "=", "=", "3", ".", "2", ".", "0">>), LongLine>>>>

\* The files whose paths findSensitiveFiles is to tell apart.
SensitiveTrees ==
    <<Entry(TRUE, <<".", "e", "n", "v">>, FileNode(<<Line(sPlainLine)>>, TRUE)) @@
      Entry(TRUE, <<"p", ".", "e", "n", "v">>, DirNode),
      Entry(TRUE, <<"p", ".", "e", "n", "v">>, DirNode) @@
      Entry(TRUE, <<".", "d", "o", "c", "k", "e", "r">>, DirNode) @@
      Entry(TRUE, <<".", "d", "o", "c", "k", "e", "r", "/", "C", "o", "n", "f", "i", "g", ".", "j", "s", "o", "n">>,
            FileNode(<<Line(sPlainLine)>>, TRUE)) @@
      Entry(TRUE, <<"p", "a", "s", "s", "w", "o", "r", "d", ".", "e", "n", "v">>, FileNode(<<Line(sPlainLine)>>, TRUE))>>

\* The entries an analyzer fails on or is to skip: a symbolic link to a
\* directory, a layer tarball that is a symbolic link to nothing, a file
\* and a package file that cannot be opened, a directory that cannot be
\* listed.
TroubleTrees ==
    <<Entry(TRUE, <<"l">>, LinkNode(<<"a">>)),
      Entry(TRUE, <<"k">>, DirNode) @@
      Entry(TRUE, <<"k", "/">> \o sLayerTar, LinkNode(<<"x">>)),
      Entry(TRUE, <<"u", ".", "j", "s">>, FileNode(<<Line(sSecretLine)>>, FALSE)) @@
      Entry(TRUE, <<"u">>, DirNode) @@
      Entry(TRUE, <<"u", "/">> \o sPackageJson,
            FileNode(PackageContents[1], FALSE)),
      Entry(TRUE, <<"z">>, Unreadable)>>

\* The element of a list of trees or of contents an index chooses, nothing
\* for 0.
Chosen(list, k) == IF k = 0 THEN <<>> ELSE list[k]

\* A tree of text files: the directory a, and as chosen the file config.js,
\* the package files a/package.json and requirements.txt, the others
\* (Gemfile.lock, a/go.mod and x-requirements.txt, each with the lines of a
\* requirements.txt), the files of SensitiveTrees and the entries of
\* TroubleTrees.
ScanTree(scan, package, requirement, others, sensitive, trouble) ==
    (Slash :> DirNode) @@ (TreeRoot :> DirNode) @@
    Entry(TRUE, <<"a">>, DirNode) @@
    Entry(scan > 0, <<"c", "o", "n", "f", "i", "g", ".", "j", "s">>,
          FileNode(Chosen(ScanContents, scan), TRUE)) @@
    Entry(package > 0, <<"a", "/">> \o sPackageJson,
          FileNode(Chosen(PackageContents, package), TRUE)) @@
    Entry(requirement > 0, sRequirementsTxt,
          FileNode(Chosen(RequirementContents, requirement), TRUE)) @@
    Entry(others, sGemfileLock, FileNode(RequirementContents[1], TRUE)) @@
    Entry(others, <<"a", "/">> \o sGoMod, FileNode(RequirementContents[1], TRUE)) @@
    Entry(others, <<"x", "-">> \o sRequirementsTxt,
          FileNode(RequirementContents[1], TRUE)) @@
    Chosen(SensitiveTrees, sensitive) @@
    Chosen(TroubleTrees, trouble)

\* 1 for a choice that is neither none nor the first.
Rare(k) == IF k > 1 THEN 1 ELSE 0

\* AnalyzeImage is called with the root of a tree of text files: a tree for
\* which at most one of the choices is neither none nor the first.
InitScan ==
    \E scan \in 0..Len(ScanContents), package \in 0..Len(PackageContents),
       requirement \in 0..Len(RequirementContents), others \in BOOLEAN,
       sensitive \in 0..Len(SensitiveTrees), trouble \in 0..Len(TroubleTrees) :
        /\ Rare(scan) + Rare(package) + Rare(requirement) + Rare(sensitive)
             + Rare(trouble) <= 1
        /\ fs = ScanTree(scan, package, requirement, others, sensitive, trouble)
        /\ images = <<>>
        /\ imagePath = TreeRoot
        /\ pc = "analyzeDir"
        /\ verbose = TRUE
        /\ tempFile = <<>> /\ tarPath = <<>> /\ imageDir = <<>>
        /\ rdFile = <<>> /\ rdPos = 0
        /\ layerDirs = <<>> /\ layerIdx = 0 /\ layersDone = <<>>
        /\ extractedPath = TreeRoot /\ extractErr = ""
        /\ dirInfo = <<>> /\ dirErr = "" /\ sizeInfo = <<>> /\ sizeErr = ""
        /\ securityInfo = <<>> /\ securityErr = ""
        /\ result = <<>> /\ isName = <<>>
        /\ topCount = 0 /\ topFiles = <<>> /\ topDirs = <<>>
        /\ firstResult = <<>>
        /\ recommendations = <<>> /\ dirExists = <<>>

\* The caller keeps the result of AnalyzeImage and calls AnalyzeImage once
\* more with the same root.
AnalyzeAgain ==
    /\ pc = "output"
    /\ firstResult = <<>>
    /\ firstResult' = result
    /\ pc' = "analyzeDir"
    /\ dirInfo' = <<>> /\ dirErr' = "" /\ sizeInfo' = <<>> /\ sizeErr' = ""
    /\ securityInfo' = <<>> /\ securityErr' = ""
    /\ result' = <<>>
    /\ UNCHANGED <<fs, images, imagePath, verbose, isName, topCount, topFiles,
                   topDirs, recommendations, dirExists>>
    /\ UNCHANGED extractVars

NextScan ==
    \/ CallAnalyzeDirectory
    \/ CallAnalyzeSecurity
    \/ CallAnalyzeSize
    \/ AnalyzeAgain

SpecScan == InitScan /\ [][NextScan]_vars

(***************************************************************************)
(* Section 16: the reports of the analyzers                                *)
(***************************************************************************)

\* The entries below the root the analyzers were called with.
EntriesBelow == { p \in DOMAIN fs : HasPrefix(p, extractedPath \o Slash) }

DirsBelow == { p \in EntriesBelow : fs[p].kind = "dir" }

FilesBelow == EntriesBelow \ DirsBelow

\* The path of an entry from the root.
Below(p) == SubSeq(p, Len(extractedPath) + 2, Len(p))

\* The elements of a list.
Range(list) == { list[i] : i \in DOMAIN list }

\* The sum of the counts of a histogram.
RECURSIVE SumCounts(_, _)
SumCounts(m, keys) ==
    IF keys = {} THEN 0
    ELSE LET Pick(k) == m[k] + SumCounts(m, keys \ {k})
         IN  Pick(CHOOSE k \in keys : TRUE)

\* The last element of a path has no dot.
NoDot(p) == \A i \in DOMAIN p : p[i] = "." => \E j \in (i + 1)..Len(p) : p[j] = "/"

\* AnalyzeDirectory has returned a DirectoryInfo and no error, and the tree
\* is as it was.
Reported ==
    /\ dirInfo # <<>>
    /\ dirErr = ""
    /\ pc \in {"analyzeSecurity", "analyzeSize", "output"}

\* C8: the DirectoryInfo AnalyzeDirectory returns with no error counts every
\* entry below the root, the root not, in FileCount or in DirCount and in
\* one only; the counts of FileTypes sum to FileCount, a file without
\* extension is counted under [no extension] and no extension has an
\* uppercase letter.
C8_Counts ==
    Reported =>
        /\ dirInfo[1].FileCount + dirInfo[1].DirCount = Cardinality(EntriesBelow)
        /\ dirInfo[1].DirCount = Cardinality(DirsBelow)
        /\ dirInfo[1].FileCount = Cardinality(FilesBelow)
        /\ SumCounts(dirInfo[1].FileTypes, DOMAIN dirInfo[1].FileTypes)
             = dirInfo[1].FileCount
        /\ \A ext \in DOMAIN dirInfo[1].FileTypes :
              \A i \in DOMAIN ext : ext[i] \notin Range(UpperLetters)
        /\ \A ext \in DOMAIN dirInfo[1].FileTypes : dirInfo[1].FileTypes[ext] > 0
        /\ Cardinality({ p \in FilesBelow : NoDot(p) }) =
              IF sNoExtension \in DOMAIN dirInfo[1].FileTypes
                  THEN dirInfo[1].FileTypes[sNoExtension] ELSE 0

\* A tree with directories, a file without extension and a file with an
\* extension in uppercase has been counted.
C8_Witness ==
    /\ Reported
    /\ dirInfo[1].DirCount >= 2
    /\ sNoExtension \in DOMAIN dirInfo[1].FileTypes
    /\ \E p \in FilesBelow : \E i \in DOMAIN p : p[i] \in Range(UpperLetters)

\* The list ascends in byte order.
Ascending(list) ==
    \A i \in 1..(Len(list) - 1) : list[i] = list[i + 1] \/ StrLess(list[i], list[i + 1])

\* C9: without verbose AnalyzeDirectory returns Files and Dirs nil; with
\* verbose and no error Files holds the path from the root of every entry
\* that is no directory and Dirs that of every directory but the root, so
\* that len(Files) = FileCount and len(Dirs) = DirCount, both in ascending
\* order.
C9_Lists ==
    /\ (dirInfo # <<>> /\ ~verbose) =>
          (dirInfo[1].Files = <<>> /\ dirInfo[1].Dirs = <<>>)
    /\ (Reported /\ verbose) =>
          /\ Range(dirInfo[1].Files) = { Below(p) : p \in FilesBelow }
          /\ Range(dirInfo[1].Dirs) = { Below(p) : p \in DirsBelow }
          /\ Len(dirInfo[1].Files) = dirInfo[1].FileCount
          /\ Len(dirInfo[1].Dirs) = dirInfo[1].DirCount
          /\ Ascending(dirInfo[1].Files)
          /\ Ascending(dirInfo[1].Dirs)

\* With verbose, files were listed that the walk does not meet in ascending
\* order: a/b before a.t.
C9_Witness ==
    /\ Reported
    /\ verbose
    /\ <<"a", "/", "b">> \in Range(dirInfo[1].Files)
    /\ <<"a", ".", "t">> \in Range(dirInfo[1].Files)
    /\ Len(dirInfo[1].Dirs) >= 2

\* No element of the list is of a larger Size than the one before it.
NonIncreasing(list) ==
    \A i \in 1..(Len(list) - 1) : list[i].Size >= list[i + 1].Size

\* C10: LayerSizes, LargestFiles and LargestDirs of the SizeInfo AnalyzeSize
\* returns are each non-increasing by Size.
C10_Descending ==
    sizeInfo # <<>> =>
        /\ NonIncreasing(sizeInfo[1].LayerSizes)
        /\ NonIncreasing(sizeInfo[1].LargestFiles)
        /\ NonIncreasing(sizeInfo[1].LargestDirs)

\* Each of the three lists holds elements of different sizes.
C10_Witness ==
    /\ sizeInfo # <<>>
    /\ Len(sizeInfo[1].LayerSizes) = 2
    /\ sizeInfo[1].LayerSizes[1].Size > sizeInfo[1].LayerSizes[2].Size
    /\ Len(sizeInfo[1].LargestFiles) >= 3
    /\ sizeInfo[1].LargestFiles[1].Size > sizeInfo[1].LargestFiles[3].Size
    /\ Len(sizeInfo[1].LargestDirs) >= 3
    /\ sizeInfo[1].LargestDirs[1].Size > sizeInfo[1].LargestDirs[3].Size

(***************************************************************************)
(* Section 17: the largest files and directories, for any count            *)
(***************************************************************************)

\* The largest count the functions are called with.
MaxCount == 3

\* A call of getLargestFiles(imagePath, count) by itself.
CallGetLargestFiles ==
    /\ pc = "top"
    /\ \E count \in 0..MaxCount :
         \E r \in getLargestFiles(fs, extractedPath, count) :
           /\ topCount' = count
           /\ topFiles' = <<r>>
    /\ pc' = "topDone"
    /\ UNCHANGED <<fs, images, imagePath, verbose, isName, topDirs, firstResult,
                   recommendations, dirExists>>
    /\ UNCHANGED extractVars
    /\ UNCHANGED analyzeVars

\* A call of GetTopDirectories(imagePath, count) by itself.
CallGetTopDirectories ==
    /\ pc = "top"
    /\ \E count \in 0..MaxCount :
         \E r \in GetTopDirectories(fs, extractedPath, count) :
           /\ topCount' = count
           /\ topDirs' = <<r>>
    /\ pc' = "topDone"
    /\ UNCHANGED <<fs, images, imagePath, verbose, isName, topFiles, firstResult,
                   recommendations, dirExists>>
    /\ UNCHANGED extractVars
    /\ UNCHANGED analyzeVars

InitTop == TreeAt("top")

NextTop == CallGetLargestFiles \/ CallGetTopDirectories

SpecTop == InitTop /\ [][NextTop]_vars

\* The files below the root, each with its path from the root and its size.
AllFileSizes ==
    { [Path |-> Below(p), Size |-> LstatSize(fs[p])] : p \in FilesBelow }

\* The sum of the sizes of the entries of a set.
RECURSIVE SumSizes(_)
SumSizes(paths) ==
    IF paths = {} THEN 0
    ELSE LET Pick(p) == LstatSize(fs[p]) + SumSizes(paths \ {p})
         IN  Pick(CHOOSE p \in paths : TRUE)

\* The directories below the root, each with its path from the root and the
\* sizes of the files in it and below it, summed.
AllDirSizes ==
    { [Path |-> Below(d),
       Size |-> SumSizes({ p \in FilesBelow : HasPrefix(p, d \o Slash) })] :
        d \in DirsBelow }

\* The list holds count of the elements of all (each of all when there are
\* fewer, or when count is 0), no element twice, and leaves out no element
\* of a larger Size than one it holds.
LargestOf(list, all, count) ==
    /\ Len(list) = IF count > 0 /\ count < Cardinality(all) THEN count
                   ELSE Cardinality(all)
    /\ Range(list) \subseteq all
    /\ Cardinality(Range(list)) = Len(list)
    /\ \A o \in all \ Range(list) : \A r \in Range(list) : o.Size <= r.Size

\* C11: getLargestFiles(root, K) and GetTopDirectories(root, K), when they
\* return no error, return min(K, n) of the n files (of the n directories
\* but the root) when K > 0 and all n when K = 0, and no entry left out is
\* larger than one returned.
C11_Largest ==
    /\ (topFiles # <<>> /\ topFiles[1].err = "") =>
          LargestOf(topFiles[1].list, AllFileSizes, topCount)
    /\ (topDirs # <<>> /\ topDirs[1].err = "") =>
          LargestOf(topDirs[1].list, AllDirSizes, topCount)

\* Fewer files than there are were asked for and returned, and a smaller
\* file was left out.
C11_Witness ==
    /\ topFiles # <<>>
    /\ topFiles[1].err = ""
    /\ topCount = 2
    /\ Len(topFiles[1].list) = 2
    /\ \E o \in AllFileSizes \ Range(topFiles[1].list) :
          \E r \in Range(topFiles[1].list) : o.Size < r.Size

(***************************************************************************)
(* Section 18: the reports of the security analyzer                        *)
(***************************************************************************)

\* The issues of the SecurityResult AnalyzeSecurity returned.
Issues == securityInfo[1].Issues

\* The number of the issues of a severity.
IssuesOf(severity) ==
    Cardinality({ i \in DOMAIN Issues : Issues[i].Severity = severity })

\* C12: in the SecurityResult AnalyzeSecurity returns with no error,
\* TotalIssues is the number of Issues, HighSeverity, MediumSeverity and
\* LowSeverity are the numbers of the issues of each severity, and the
\* three sum to TotalIssues.
C12_Tallies ==
    securityInfo # <<>> =>
        /\ securityErr = ""
        /\ securityInfo[1].TotalIssues = Len(Issues)
        /\ securityInfo[1].HighSeverity = IssuesOf("HIGH")
        /\ securityInfo[1].MediumSeverity = IssuesOf("MEDIUM")
        /\ securityInfo[1].LowSeverity = IssuesOf("LOW")
        /\ securityInfo[1].HighSeverity + securityInfo[1].MediumSeverity
             + securityInfo[1].LowSeverity = securityInfo[1].TotalIssues

\* Issues of two severities, and more than one of a severity, were counted.
C12_Witness ==
    /\ securityInfo # <<>>
    /\ securityInfo[1].HighSeverity >= 2
    /\ securityInfo[1].MediumSeverity >= 1

\* The place of a type of issue in the order of the three checks.
TypeRank(type) ==
    IF type = "SENSITIVE_FILE" THEN 1
    ELSE IF type = "HARDCODED_SECRET" THEN 2
    ELSE IF type = "VULNERABLE_PACKAGE" THEN 3
    ELSE 0

\* C13: in the Issues of a SecurityResult every SENSITIVE_FILE issue is
\* before every HARDCODED_SECRET issue, and every one of these before every
\* VULNERABLE_PACKAGE issue; there are no issues of another type.
C13_TypesInOrder ==
    securityInfo # <<>> =>
        /\ \A i \in DOMAIN Issues : TypeRank(Issues[i].Type) > 0
        /\ \A i, j \in DOMAIN Issues :
              i < j => TypeRank(Issues[i].Type) <= TypeRank(Issues[j].Type)

\* A SecurityResult holds issues of each of the three types, and more than
\* one of two of them.
C13_Witness ==
    /\ securityInfo # <<>>
    /\ \E i \in DOMAIN Issues : Issues[i].Type = "SENSITIVE_FILE"
    /\ \A type \in {"HARDCODED_SECRET", "VULNERABLE_PACKAGE"} :
          Cardinality({ i \in DOMAIN Issues : Issues[i].Type = type }) >= 2

\* The patterns of sensitivePatterns the path holds, in lowercase.
PatternsIn(relPath) ==
    { k \in DOMAIN sensitivePatterns :
        Contains(ToLower(relPath), sensitivePatterns[k].pattern) }

\* The SENSITIVE_FILE issues for a path.
SensitiveAt(relPath) ==
    { i \in DOMAIN Issues :
        Issues[i].Type = "SENSITIVE_FILE" /\ Issues[i].Path = relPath }

\* C14: findSensitiveFiles reports one issue for each entry that is no
\* directory and whose path from the root, in lowercase, holds a substring
\* of the table, with the severity and the description of the first such
\* entry of the table, and no other issue: none for a directory, one of
\* severity HIGH for a path that holds .env.
C14_FirstPattern ==
    securityInfo # <<>> =>
        /\ \A p \in FilesBelow :
              /\ Cardinality(SensitiveAt(Below(p))) =
                    IF PatternsIn(Below(p)) = {} THEN 0 ELSE 1
              /\ \A i \in SensitiveAt(Below(p)) : \A k \in PatternsIn(Below(p)) :
                    (\A j \in PatternsIn(Below(p)) : k <= j) =>
                        /\ Issues[i].Severity = sensitivePatterns[k].severity
                        /\ Issues[i].Description = sensitivePatterns[k].desc
              /\ Contains(ToLower(Below(p)), <<".", "e", "n", "v">>) =>
                    \E i \in SensitiveAt(Below(p)) : Issues[i].Severity = "HIGH"
        /\ \A i \in DOMAIN Issues :
              Issues[i].Type = "SENSITIVE_FILE" =>
                  \E p \in FilesBelow : Issues[i].Path = Below(p)

\* A file was reported whose path holds two substrings of the table of
\* different descriptions, one of them after lowering a letter, in a tree
\* where the name of a directory holds a substring of the table.
C14_Witness ==
    /\ securityInfo # <<>>
    /\ \E p \in FilesBelow :
          /\ SensitiveAt(Below(p)) # {}
          /\ \E k, j \in PatternsIn(Below(p)) :
                sensitivePatterns[k].desc # sensitivePatterns[j].desc
          /\ ToLower(Below(p)) # Below(p)
    /\ \E d \in DirsBelow : PatternsIn(Below(d)) # {}

\* The patterns of secretPatterns that match the line n of the file at p,
\* none when there is no such line of text.
SecretsIn(p, n) ==
    IF n \in DOMAIN fs[p].data /\ fs[p].data[n].typeflag = "line"
        THEN { k \in DOMAIN secretPatterns :
                 MatchString(secretPatterns[k], fs[p].data[n].name) }
    ELSE {}

\* The HARDCODED_SECRET issues for a location.
SecretsAt(location) ==
    { i \in DOMAIN Issues :
        Issues[i].Type = "HARDCODED_SECRET" /\ Issues[i].Path = location }

\* The files findHardcodedSecrets reads: regular files that can be opened
\* and are not binary.
ScannedFiles ==
    { p \in FilesBelow :
        fs[p].kind = "file" /\ fs[p].perm /\ ~isBinaryFile(fs, p) }

\* C15: findHardcodedSecrets reports one issue for each line a pattern
\* matches, however many patterns match it, with the description of the
\* first pattern of the table that matches, the severity HIGH and the
\* location path:line, the path from the root and the lines counted from
\* 1, and no other issue; for config.js with the first line
\* const password = 'supersecretpw'; one issue at config.js:1.
C15_OnePerLine ==
    securityInfo # <<>> =>
        /\ \A p \in ScannedFiles : \A n \in DOMAIN fs[p].data :
              /\ Cardinality(SecretsAt(Below(p) \o <<":">> \o Itoa(n))) =
                    IF SecretsIn(p, n) = {} THEN 0 ELSE 1
              /\ \A i \in SecretsAt(Below(p) \o <<":">> \o Itoa(n)) :
                    \A k \in SecretsIn(p, n) :
                       (\A j \in SecretsIn(p, n) : k <= j) =>
                           /\ Issues[i].Description = secretPatterns[k].desc
                           /\ Issues[i].Severity = "HIGH"
        /\ \A i \in DOMAIN Issues :
              Issues[i].Type = "HARDCODED_SECRET" =>
                  \E p \in ScannedFiles : \E n \in DOMAIN fs[p].data :
                      Issues[i].Path = Below(p) \o <<":">> \o Itoa(n)
        /\ \A p \in ScannedFiles :
              (/\ Below(p) = <<"c", "o", "n", "f", "i", "g", ".", "j", "s">>
               /\ fs[p].data # <<>>
               /\ fs[p].data[1] = Line(sSecretLine)) =>
                  \E i \in DOMAIN Issues :
                      /\ SecretsAt(<<"c", "o", "n", "f", "i", "g", ".", "j", "s", ":", "1">>) = {i}
                      /\ Issues[i].Description = "Hardcoded password"
                      /\ Issues[i].Severity = "HIGH"

\* A line that two patterns of different descriptions match, the first of
\* them later in the line than the other, was reported: the third line of
\* config.js.
C15_Witness ==
    /\ securityInfo # <<>>
    /\ SecretsAt(<<"c", "o", "n", "f", "i", "g", ".", "j", "s", ":", "3">>) # {}
    /\ \E p \in ScannedFiles :
          /\ Below(p) = <<"c", "o", "n", "f", "i", "g", ".", "j", "s">>
          /\ \E k, j \in SecretsIn(p, 3) :
                secretPatterns[k].desc # secretPatterns[j].desc

\* C16: an error of one file (it cannot be opened, reading it fails in the
\* scan of its lines, a package file cannot be read or parsed) does not
\* make AnalyzeSecurity fail: AnalyzeSecurity returns an error only when
\* the walk of the tree fails, and a SecurityResult otherwise.
C16_FileErrorsSkipped ==
    pc \in {"analyzeSize", "output"} =>
        /\ securityErr # "" => Walk(fs, extractedPath).err # ""
        /\ securityErr = "" => securityInfo # <<>>

\* The package files of the tree that their checks can read: a package.json
\* that is a JSON document, a requirements.txt of lines of text.
ReadManifests ==
    { p \in FilesBelow :
        /\ fs[p].kind = "file" /\ fs[p].perm
        /\ \/ /\ Base(p) = sPackageJson
              /\ Len(fs[p].data) = 1 /\ fs[p].data[1].typeflag = "json"
           \/ /\ Base(p) = sRequirementsTxt
              /\ \A n \in DOMAIN fs[p].data : fs[p].data[n].typeflag = "line" }

\* A version without the one ^ or ~ it begins with.
Unprefixed(version) ==
    IF version # <<>> /\ version[1] \in {"^", "~"} THEN Tail(version) ELSE version

\* The packages a package file declares, each a name and a version: the
\* members of dependencies and devDependencies, the lines name==version.
Declared(p) ==
    IF Base(p) = sPackageJson
        THEN { <<pair[1], Unprefixed(pair[2])>> :
                 pair \in Range(fs[p].data[1].body[1]) \cup Range(fs[p].data[1].body[2]) }
    ELSE { <<TrimSpace(SubSeq(l, 1, Index(l, <<"=", "=">>) - 1)),
             TrimSpace(SubSeq(l, Index(l, <<"=", "=">>) + 2, Len(l)))>> :
             l \in { b.name : b \in { c \in Range(fs[p].data) :
                       /\ ~HasPrefix(c.name, <<"#">>)
                       /\ Index(c.name, <<"=", "=">>) # 0 } } }

\* The table of a package file.
VulnTable(p) ==
    IF Base(p) = sPackageJson THEN nodeVulnPackages ELSE pythonVulnPackages

\* The exclusive upper bound the table has for a package: the version of
\* its entry after the sign <.
UpperBound(table, name) == Tail(table[name].version)

\* The packages of a package file that are in the table with a version
\* below the upper bound.
BelowBound(p) ==
    { d \in Declared(p) :
        /\ d[1] \in DOMAIN VulnTable(p)
        /\ StrLess(d[2], UpperBound(VulnTable(p), d[1])) }

\* The VULNERABLE_PACKAGE issues of a package file.
PackagesAt(p) ==
    { i \in DOMAIN Issues :
        Issues[i].Type = "VULNERABLE_PACKAGE" /\ Issues[i].Path = Below(p) }

\* C17: a package of a package file has a VULNERABLE_PACKAGE issue if and
\* only if it is in the vulnerable-package table and its version (after one
\* leading ^ or ~ in package.json; the text after == in requirements.txt)
\* is less, as a string, than the upper bound of the table (4.17.21 for
\* lodash, 3.2.14 for django): none for a version that is the bound or
\* greater, none for a package that is not in the table.
C17_BelowBoundOnly ==
    securityInfo # <<>> =>
        \A p \in ReadManifests :
            /\ Cardinality(PackagesAt(p)) = Cardinality(BelowBound(p))
            /\ { Issues[i].Description : i \in PackagesAt(p) } =
                  { VulnTable(p)[d[1]].desc \o ". Update to "
                      \o VulnTable(p)[d[1]].fixVersion : d \in BelowBound(p) }

\* C18: the Path of every VULNERABLE_PACKAGE issue is the path from the
\* root of the package file it is from, a file of the name package.json or
\* requirements.txt and of no other name: files of the names Gemfile.lock
\* and go.mod have no issue, and the issue names a package the file
\* declares.
C18_ManifestPath ==
    securityInfo # <<>> =>
        \A i \in DOMAIN Issues :
            Issues[i].Type = "VULNERABLE_PACKAGE" =>
                \E p \in ReadManifests :
                    /\ Issues[i].Path = Below(p)
                    /\ \/ Below(p) = sRequirementsTxt
                       \/ Below(p) = sPackageJson
                       \/ HasSuffix(Below(p), <<"/">> \o sRequirementsTxt)
                       \/ HasSuffix(Below(p), <<"/">> \o sPackageJson)
                    /\ \E d \in Declared(p) :
                          /\ d[1] \in DOMAIN VulnTable(p)
                          /\ Issues[i].Description =
                                VulnTable(p)[d[1]].desc \o ". Update to "
                                  \o VulnTable(p)[d[1]].fixVersion

\* Issues of a package.json in a directory and of requirements.txt were
\* reported for a tree with Gemfile.lock, a/go.mod and x-requirements.txt,
\* each holding the lines of a requirements.txt.
C18_Witness ==
    /\ securityInfo # <<>>
    /\ \E i, j \in DOMAIN Issues :
          /\ Issues[i].Type = "VULNERABLE_PACKAGE"
          /\ Issues[i].Path = <<"a", "/">> \o sPackageJson
          /\ Issues[j].Type = "VULNERABLE_PACKAGE"
          /\ Issues[j].Path = sRequirementsTxt
    /\ \E p, q, x \in FilesBelow :
          /\ Base(p) = sGemfileLock
          /\ Base(q) = sGoMod
          /\ Below(x) = <<"x", "-">> \o sRequirementsTxt

\* C19: AnalyzeImage called twice with the root of one tree, the tree not
\* changed in between, returns the same result twice: the same
\* DirectoryInfo, the same SizeInfo and the same SecurityResult with the
\* same issues in the same order.
C19_SameResultTwice ==
    (pc = "output" /\ firstResult # <<>>) => result = firstResult

\* AnalyzeImage has returned its result: each of the three reports is what
\* its analyzer returns for the tree, and nil if and only if the analyzer
\* returns an error.
C20_Report ==
    pc = "output" =>
        /\ result # <<>>
        /\ result[1].DirectoryInfo =
              IF AnalyzeDirectory(fs, extractedPath, verbose).err # "" THEN <<>>
              ELSE <<AnalyzeDirectory(fs, extractedPath, verbose).info>>
        /\ \E r \in AnalyzeSecurity(fs, extractedPath) :
              result[1].SecurityInfo = IF r.err # "" THEN <<>> ELSE r.info
        /\ \E r \in AnalyzeSize(fs, extractedPath) :
              result[1].SizeInfo = IF r.err # "" THEN <<>> ELSE r.info
        /\ (result[1].DirectoryInfo = <<>>) <=> (dirErr # "")
        /\ (result[1].SecurityInfo = <<>>) <=> (securityErr # "")
        /\ (result[1].SizeInfo = <<>>) <=> (sizeErr # "")

\* After AnalyzeDirectory comes AnalyzeSecurity, then AnalyzeSize, whatever
\* the one before returned, and the reports already in the result stay.
C20_Step ==
    /\ pc = "analyzeDir" => (pc' = "analyzeSecurity" /\ result' # <<>>)
    /\ pc = "analyzeSecurity" =>
          /\ pc' = "analyzeSize"
          /\ result'[1].DirectoryInfo = result[1].DirectoryInfo
    /\ pc = "analyzeSize" =>
          /\ pc' = "output"
          /\ result'[1].DirectoryInfo = result[1].DirectoryInfo
          /\ result'[1].SecurityInfo = result[1].SecurityInfo

\* C20: AnalyzeImage returns a result for every tree and runs
\* AnalyzeDirectory, AnalyzeSecurity and AnalyzeSize in this order; each
\* report of the result is nil if and only if its analyzer returned an
\* error; an error of one analyzer does not keep a later one from running
\* and leaves the report of an earlier one in the result.
C20_AllThreeRun == []C20_Report /\ [][C20_Step]_vars

\* AnalyzeSecurity alone failed: the result holds the DirectoryInfo and the
\* SizeInfo and no SecurityResult.
C20_Witness ==
    /\ pc = "output"
    /\ securityErr # ""
    /\ dirErr = ""
    /\ sizeErr = ""
    /\ result[1].DirectoryInfo # <<>>
    /\ result[1].SecurityInfo = <<>>
    /\ result[1].SizeInfo # <<>>

(***************************************************************************)
(* Section 19: the recommendations                                         *)
(***************************************************************************)

\* The issues a report given to generateRecommendations holds at most.
MaxIssues == 2

\* The issues of the reports.
ReportIssues ==
    { [Type |-> "SENSITIVE_FILE", Path |-> <<".", "e", "n", "v">>,
       Description |-> "Environment file may contain sensitive information",
       Severity |-> "HIGH"],
      [Type |-> "HARDCODED_SECRET", Path |-> <<"c", ".", "j", "s", ":", "1">>,
       Description |-> "Hardcoded password", Severity |-> "HIGH"],
      [Type |-> "VULNERABLE_PACKAGE", Path |-> sPackageJson,
       Description |-> "Vulnerable package", Severity |-> "MEDIUM"],
      [Type |-> "VULNERABLE_PACKAGE", Path |-> sRequirementsTxt,
       Description |-> "Vulnerable package", Severity |-> "LOW"] }

\* The security sub-reports: none, or the SecurityResult of at most
\* MaxIssues issues.
SecurityReports ==
    {<<>>} \cup
    { <<[Issues |-> issues,
         TotalIssues |-> Len(issues),
         HighSeverity |-> CountSeverity(issues, "HIGH", 1),
         MediumSeverity |-> CountSeverity(issues, "MEDIUM", 1),
         LowSeverity |-> CountSeverity(issues, "LOW", 1)]>> :
        issues \in SeqsUpTo(ReportIssues, MaxIssues) }

\* The extensions of the buckets of the reports: the unnecessary ones, one
\* of them in capitals, and another one.
ReportExts ==
    Range(unnecessaryExts) \cup {<<".", "L", "O", "G">>, <<".", "t", "x", "t">>}

\* The buckets of the reports besides the one of the files without an
\* extension: at most two, each at the threshold or one byte above it.
ReportBuckets ==
    LET One == {<<>>} \cup
               { (ext :> size) : ext \in ReportExts,
                                 size \in {UnnecessarySize, UnnecessarySize + 1} }
    IN  { a @@ b : a \in One, b \in One }

\* The layers of a report with n layers, a kilobyte each.
ReportLayers(n) ==
    [k \in 1..n |-> [ID |-> <<"l">> \o Itoa(k), Size |-> KB]]

\* The sum of the values of a map.
RECURSIVE SumValues(_)
SumValues(m) ==
    IF DOMAIN m = {} THEN 0
    ELSE LET Without(k) == m[k] + SumValues([j \in DOMAIN m \ {k} |-> m[j]])
         IN  Without(CHOOSE k \in DOMAIN m : TRUE)

\* The SizeInfo of a tree of the total size whose largest file has no
\* extension and the size largest, followed by nine files of eleven
\* megabytes, with the buckets and n layers; what the buckets leave of the
\* total is in files without an extension.
SizeReport(total, largest, buckets, n) ==
    LET WithRest(m) == (sNoExtension :> (total - SumValues(m))) @@ m
    IN  [TotalSize |-> total,
         LayerSizes |-> ReportLayers(n),
         LargestFiles |->
             <<[Path |-> <<"b", "i", "g">>, Size |-> largest]>>
               \o [k \in 1..9 |-> [Path |-> <<"m">> \o Itoa(k), Size |-> 11 * MB]],
         LargestDirs |-> [k \in 1..(IF n < TopDirsCount THEN n ELSE TopDirsCount) |->
                            [Path |-> <<"l">> \o Itoa(k), Size |-> KB]],
         FileTypeBreakdown |->
             WithRest(IF n = 0 THEN buckets
                      ELSE MapAdd(buckets, <<".", "t", "a", "r">>, n * KB))]

\* The SizeInfo of an empty tree.
EmptySizeReport ==
    [TotalSize |-> 0, LayerSizes |-> <<>>, LargestFiles |-> <<>>,
     LargestDirs |-> <<>>, FileTypeBreakdown |-> <<>>]

\* The size sub-reports: none, the one of an empty tree, and those of trees
\* about the thresholds.
SizeReports ==
    {<<>>, <<EmptySizeReport>>} \cup
    { <<SizeReport(total, largest, buckets, n)>> :
        total \in {LargeImageSize, LargeImageSize + 1, 600 * MB},
        largest \in {LargeFileSize, LargeFileSize + 1},
        buckets \in ReportBuckets,
        n \in {0, ManyLayers, ManyLayers + 1} }

\* OutputText is given a report.
InitRecommend ==
    \E security \in SecurityReports, size \in SizeReports :
        /\ result = <<[ImagePath |-> TreeRoot, DirectoryInfo |-> <<>>,
                       SecurityInfo |-> security, SizeInfo |-> size]>>
        /\ fs = BaseFs
        /\ images = <<>>
        /\ imagePath = TreeRoot
        /\ pc = "recommend"
        /\ verbose = TRUE
        /\ tempFile = <<>> /\ tarPath = <<>> /\ imageDir = <<>>
        /\ rdFile = <<>> /\ rdPos = 0
        /\ layerDirs = <<>> /\ layerIdx = 0 /\ layersDone = <<>>
        /\ extractedPath = TreeRoot /\ extractErr = ""
        /\ dirInfo = <<>> /\ dirErr = ""
        /\ sizeInfo = size /\ sizeErr = IF size = <<>> THEN "walk" ELSE ""
        /\ securityInfo = security
        /\ securityErr = IF security = <<>> THEN "walk" ELSE ""
        /\ isName = <<>>
        /\ topCount = 0 /\ topFiles = <<>> /\ topDirs = <<>>
        /\ firstResult = <<>>
        /\ recommendations = <<>> /\ dirExists = <<>>

\* A call of generateRecommendations(result) by itself.
CallGenerateRecommendations ==
    /\ pc = "recommend"
    /\ recommendations' = <<generateRecommendations(result[1])>>
    /\ pc' = "recommended"
    /\ UNCHANGED <<fs, images, imagePath, verbose, isName, topCount, topFiles,
                   topDirs, firstResult, dirExists>>
    /\ UNCHANGED extractVars
    /\ UNCHANGED analyzeVars

NextRecommend == CallGenerateRecommendations

SpecRecommend == InitRecommend /\ [][NextRecommend]_vars

\* The entry of the format among the recommendations returned.
Recommended(format) ==
    \E k \in 1..Len(recommendations[1]) : recommendations[1][k].format = format

\* A condition generateRecommendations appends an entry for holds of the
\* report.
Triggered(report) ==
    \/ /\ report.SecurityInfo # <<>>
       /\ \/ report.SecurityInfo[1].HighSeverity > 0
          \/ report.SecurityInfo[1].MediumSeverity > 0
          \/ Len(report.SecurityInfo[1].Issues) > 0
    \/ /\ report.SizeInfo # <<>>
       /\ \/ report.SizeInfo[1].TotalSize > LargeImageSize
          \/ Len(report.SizeInfo[1].LayerSizes) > ManyLayers

\* C21: the list generateRecommendations returns is never empty; the entry
\* "No specific recommendations at this time" is in it if and only if
\* nothing else was triggered, and it is the only entry then; this holds
\* with the security or the size sub-report absent as well.
C21_DefaultEntry ==
    recommendations # <<>> =>
        /\ Len(recommendations[1]) >= 1
        /\ Recommended(sNoRecommendations) <=> ~Triggered(result[1])
        /\ Recommended(sNoRecommendations) <=>
             (\A k \in 1..Len(recommendations[1]) :
                recommendations[1][k].format = sNoRecommendations)
        /\ Recommended(sNoRecommendations) =>
             recommendations[1] = <<Sprintf(sNoRecommendations, <<>>)>>

\* generateRecommendations has returned the default entry alone for a report
\* without the security and the size sub-report.
C21_Witness ==
    /\ pc = "recommended"
    /\ result[1].SecurityInfo = <<>> /\ result[1].SizeInfo = <<>>
    /\ recommendations = <<(<<Sprintf(sNoRecommendations, <<>>)>>)>>

\* The report has a size sub-report with a total of 600 MB, a largest file
\* not above the large-file threshold and at most ten layers, and
\* generateRecommendations has returned.
SixHundred ==
    /\ recommendations # <<>>
    /\ result[1].SizeInfo # <<>>
    /\ result[1].SizeInfo[1].TotalSize = 600 * MB
    /\ \A k \in 1..Len(result[1].SizeInfo[1].LargestFiles) :
         result[1].SizeInfo[1].LargestFiles[k].Size <= LargeFileSize
    /\ Len(result[1].SizeInfo[1].LayerSizes) <= ManyLayers

HasFinding(report) ==
    /\ report.SecurityInfo # <<>>
    /\ \/ report.SecurityInfo[1].HighSeverity > 0
       \/ report.SecurityInfo[1].MediumSeverity > 0
       \/ Len(report.SecurityInfo[1].Issues) > 0

\* The unnecessary extensions whose bucket of the report is above the
\* threshold.
LargeBuckets(report) ==
    { ext \in Range(unnecessaryExts) :
        /\ ext \in DOMAIN report.SizeInfo[1].FileTypeBreakdown
        /\ report.SizeInfo[1].FileTypeBreakdown[ext] > UnnecessarySize }

UnnecessaryEntries(ext) ==
    Cardinality({ k \in 1..Len(recommendations[1]) :
                    /\ recommendations[1][k].format = sUnnecessary
                    /\ recommendations[1][k].args[1] = ext })

\* C28: with the size sub-report present, each of the buckets .zip, .tar,
\* .gz, .log and .tmp above 10 MB has one entry "Remove unnecessary <ext>
\* files" in the list, and a bucket at or below 10 MB, or absent, has none.
C28_OnePerBucket ==
    (recommendations # <<>> /\ result[1].SizeInfo # <<>>) =>
        \A ext \in Range(unnecessaryExts) :
            UnnecessaryEntries(ext)
              = IF ext \in LargeBuckets(result[1]) THEN 1 ELSE 0

(***************************************************************************)
(* Section 20: the tree under the analyzers                                *)
(***************************************************************************)

ArchiveOf(layerPath) ==
    LET Read(o) == IF o.err # "" THEN <<>> ELSE fs[o.file].data
    IN  Read(Open(fs, layerPath))

\* The body of the last regular-file entry of the archive with the name.
LastBody(archive, name) ==
    LET Named == { i \in 1..Len(archive) :
                     archive[i].typeflag = "reg" /\ archive[i].name = name }
        Last == CHOOSE i \in Named : \A j \in Named : j <= i
    IN  archive[Last].body

\* The bytes of the regular file at the path; the sequence <<"none">> if
\* there is no such file.
Content(path) ==
    LET Read(o) ==
            IF o.err # "" \/ fs[o.file].kind # "file" THEN <<"none">>
            ELSE fs[o.file].data
    IN  Read(Open(fs, path))

\* ExtractTar has just returned nil for the layer tarball layerPath.
JustExtracted(layerPath) ==
    /\ pc = "layers"
    /\ layersDone # <<>>
    /\ layersDone[Len(layersDone)] = layerPath

\* C24: after ExtractTar has returned nil, for every regular-file entry of
\* the archive the file at <dest>/<name> exists and holds exactly the body
\* of the last entry with that name, nothing of an earlier entry or of a
\* file that was there being left; an archive that is malformed or cannot
\* be opened makes ExtractTar return an error.
C24_LastBodyExactly ==
    \A layerPath \in Range(layerDirs) :
        JustExtracted(layerPath) =>
            /\ Open(fs, layerPath).err = ""
            /\ \A i \in 1..Len(ArchiveOf(layerPath)) :
                 /\ ArchiveOf(layerPath)[i].typeflag \in HeaderFlags
                 /\ ~ArchiveOf(layerPath)[i].short
                 /\ ArchiveOf(layerPath)[i].typeflag = "reg" =>
                      Content(Join(ExtractedDir(layerPath),
                                   ArchiveOf(layerPath)[i].name))
                        = LastBody(ArchiveOf(layerPath),
                                   ArchiveOf(layerPath)[i].name)

\* The regular files and directories a step creates or writes.
Written ==
    { p \in DOMAIN fs' :
        /\ fs'[p].kind \in {"file", "dir"}
        /\ p \notin DOMAIN fs \/ fs[p] # fs'[p] }

\* C29: no step of the extraction, of the outer tarball into the image
\* directory or of a layer into its directory, finished or aborted, creates
\* or writes a regular file or a directory outside the destination's tree,
\* also for an archive with a symbolic link followed by entries whose names
\* pass through it.
C29_NothingOutside ==
    [][/\ (pc = "outer") => (\A p \in Written : Within(p, imageDir))
       /\ (pc = "layer") =>
            (\A p \in Written : Within(p, ExtractedDir(layerDirs[layerIdx])))]_vars

(***************************************************************************)
(* Section 22: the order among equal sizes                                 *)
(***************************************************************************)

\* The place of the entry with the path from the root in the walk of the
\* tree.
WalkPlace(path) ==
    LET In(visits) ==
            CHOOSE k \in 1..Len(visits) : Rel(imagePath, visits[k].path) = path
    IN  In(Walk(fs, imagePath).visits)

\* The place of the layer with the ID among the layer tarballs filepath.Glob
\* lists.
GlobPlace(id) ==
    LET In(layers) == CHOOSE k \in 1..Len(layers) : Base(Dir(layers[k])) = id
    IN  In(Glob(fs, Join(imagePath, sLayerPattern)))

\* C25: in LayerSizes, LargestFiles and LargestDirs the entries of one size
\* stand in the order they were met in, the order of filepath.Glob for the
\* layers and of the walk for the files and the directories, whatever the
\* number of entries.
C25_EqualSizesInEncounterOrder ==
    sizeInfo # <<>> =>
        /\ \A i, j \in 1..Len(sizeInfo[1].LayerSizes) :
             (i < j /\ sizeInfo[1].LayerSizes[i].Size = sizeInfo[1].LayerSizes[j].Size)
               => GlobPlace(sizeInfo[1].LayerSizes[i].ID)
                    < GlobPlace(sizeInfo[1].LayerSizes[j].ID)
        /\ \A i, j \in 1..Len(sizeInfo[1].LargestFiles) :
             (i < j /\ sizeInfo[1].LargestFiles[i].Size
                         = sizeInfo[1].LargestFiles[j].Size)
               => WalkPlace(sizeInfo[1].LargestFiles[i].Path)
                    < WalkPlace(sizeInfo[1].LargestFiles[j].Path)
        /\ \A i, j \in 1..Len(sizeInfo[1].LargestDirs) :
             (i < j /\ sizeInfo[1].LargestDirs[i].Size = sizeInfo[1].LargestDirs[j].Size)
               => WalkPlace(sizeInfo[1].LargestDirs[i].Path)
                    < WalkPlace(sizeInfo[1].LargestDirs[j].Path)

(***************************************************************************)
(* Section 23: the buckets of the extensions                               *)
(***************************************************************************)

\* C26: FileTypeBreakdown is keyed by the extension in lower case, with the
\* buckets of the Directory Analyzer's FileTypes: the two maps have the same
\* keys, files whose extensions differ in the case of letters only are in
\* one bucket, and the values of FileTypeBreakdown sum to TotalSize.
C26_LowercaseBuckets ==
    (sizeInfo # <<>> /\ dirInfo # <<>> /\ dirErr = "") =>
        /\ \A ext \in DOMAIN sizeInfo[1].FileTypeBreakdown : ToLower(ext) = ext
        /\ DOMAIN sizeInfo[1].FileTypeBreakdown = DOMAIN dirInfo[1].FileTypes
        /\ SumValues(sizeInfo[1].FileTypeBreakdown) = sizeInfo[1].TotalSize

(***************************************************************************)
(* Section 24: the shortest values of the secrets                          *)
(***************************************************************************)

\* The patterns of secretPatterns for the generic names and for the AWS
\* names.
GenericNames == 1..7
AwsNames == {8, 9}

\* The line is an assignment to the name of one of the patterns and nothing
\* else, name = 'value' or name = "value", with a value of fewer than min
\* characters.
ShortAssignment(line, patterns, min) ==
    LET Value(q, c) == c = Len(line) /\ line[c] \in Quotes /\ c - (q + 1) < min
        Quoted(q) ==
            /\ q <= Len(line)
            /\ line[q] \in Quotes
            /\ Value(q, SkipUntil(line, q + 1, Quotes))
        Assigned(e) ==
            /\ e <= Len(line)
            /\ line[e] = "="
            /\ Quoted(SkipWhile(line, e + 1, RegexpSpace))
        Named(j) == j > 0 /\ Assigned(SkipWhile(line, j, RegexpSpace))
    IN  \E k \in patterns : Named(WordsEnd(line, 1, secretPatterns[k].words, 1))

\* C27: the scanner asks for a quoted value of at least 8 characters for the
\* generic names and of at least 16 for the AWS names: a line that is
\* nothing but an assignment to a generic name with a shorter value, or to
\* aws_access_key_id or aws_secret_access_key with a value of fewer than 16
\* characters, has no HARDCODED_SECRET issue.
C27_ShortValuesUnreported ==
    securityInfo # <<>> =>
        \A p \in ScannedFiles : \A n \in DOMAIN fs[p].data :
            (/\ fs[p].data[n].typeflag = "line"
             /\ \/ ShortAssignment(fs[p].data[n].name, GenericNames, 8)
                \/ ShortAssignment(fs[p].data[n].name, AwsNames, 16))
              => SecretsAt(Below(p) \o <<":">> \o Itoa(n)) = {}

(***************************************************************************)
(* Section 25: DirExists                                                   *)
(***************************************************************************)

\* The paths DirExists is called with: the root of the tree, directories,
\* files and a symbolic link of it, names it does not hold, names below a
\* file and below a directory without permissions, and the empty path.
ExistsPaths ==
    { TreeRoot, <<>>,
      Join(TreeRoot, <<"a">>),
      Join(TreeRoot, <<"a", "/", "b">>),
      Join(TreeRoot, <<"a", "/", "b", "/", "x">>),
      Join(TreeRoot, <<"n">>),
      Join(TreeRoot, <<"n", "/", "x">>),
      Join(TreeRoot, <<"l">>),
      Join(TreeRoot, <<"z">>),
      Join(TreeRoot, <<"z", "/", "x">>),
      Join(TreeRoot, <<"n", "o">>),
      Join(TreeRoot, <<"n", "o", "/", "x">>) }

\* A call of DirExists(path) by itself.
CallDirExists ==
    /\ pc = "exists"
    /\ \E path \in ExistsPaths :
         dirExists' = <<[path |-> path, result |-> DirExists(fs, path)]>>
    /\ pc' = "existsDone"
    /\ UNCHANGED <<fs, images, imagePath, verbose, isName, topCount, topFiles,
                   topDirs, firstResult, recommendations>>
    /\ UNCHANGED extractVars
    /\ UNCHANGED analyzeVars

InitExists == TreeAt("exists")

NextExists == CallDirExists

SpecExists == InitExists /\ [][NextExists]_vars

\* The path names a directory: each of its elements can be looked up, a
\* symbolic link being followed, and the last one is a directory.
IsDirectory(path) ==
    LET Reached(r) ==
            /\ r.err = ""
            /\ r.exists
            /\ fs[r.path].kind = "dir"
            /\ ~Denied(fs, r.path)
    IN  Reached(Namei(fs, path, TRUE))

\* C30: DirExists returns a boolean for every path and does not panic: true
\* if and only if the path is an existing directory, and false for a path
\* that does not exist, is a regular file or cannot be stat'ed for another
\* reason, such as a directory without permissions or a regular file among
\* its parents.
C30_BooleanForEveryPath ==
    dirExists # <<>> =>
        /\ ~dirExists[1].result.panic
        /\ dirExists[1].result.value <=> IsDirectory(dirExists[1].path)

====
